---- MODULE Spec2Model ----
(***************************************************************************)
(* Model of the polish-cli file organization pipeline                      *)
(* (FileProcessor, ContentExtractor, ClaudeService stubs, the file system  *)
(* they act on).  Strings are sequences of one-character strings, paths    *)
(* are sequences of segments, the file system is a set of directories and  *)
(* a map from file paths to contents.                                      *)
(***************************************************************************)
EXTENDS Naturals, Integers, Sequences, FiniteSets, TLC

(***************************************************************************)
(* Strings                                                                 *)
(***************************************************************************)
LowerChars == <<"a","b","c","d","e","f","g","h","i","j","k","l","m",
                "n","o","p","q","r","s","t","u","v","w","x","y","z">>

UpperChars == <<"A","B","C","D","E","F","G","H","I","J","K","L","M",
                "N","O","P","Q","R","S","T","U","V","W","X","Y","Z">>

UpperSet == {UpperChars[k] : k \in 1..26}

LowerSet == {LowerChars[k] : k \in 1..26}

ToLowerTable == [c \in UpperSet |-> LowerChars[CHOOSE k \in 1..26 : UpperChars[k] = c]]

ToUpperTable == [c \in LowerSet |-> UpperChars[CHOOSE k \in 1..26 : LowerChars[k] = c]]

\* String.prototype.toLowerCase, one character
LowerChar(c) == IF c \in UpperSet THEN ToLowerTable[c] ELSE c

\* String.prototype.toUpperCase, one character
UpperChar(c) == IF c \in LowerSet THEN ToUpperTable[c] ELSE c

toLowerCase(s) == [k \in 1..Len(s) |-> LowerChar(s[k])]

\* s.charAt(0).toUpperCase() + s.slice(1)
Capitalize(s) == [k \in 1..Len(s) |-> IF k = 1 THEN UpperChar(s[k]) ELSE s[k]]

\* String.prototype.startsWith
startsWith(s, pre) ==
  /\ Len(pre) <= Len(s)
  /\ SubSeq(s, 1, Len(pre)) = pre

\* String.prototype.endsWith
endsWith(s, suf) ==
  /\ Len(suf) <= Len(s)
  /\ SubSeq(s, Len(s) - Len(suf) + 1, Len(s)) = suf

\* String.prototype.includes
includes(s, sub) ==
  \E k \in 0..(Len(s) - Len(sub)) : SubSeq(s, k + 1, k + Len(sub)) = sub

\* position of the last '.' of a base name that path.parse treats as the
\* start of the extension (a leading dot starts no extension); 0 if none
ExtDot(base) ==
  LET dots == {k \in 2..Len(base) : base[k] = "."}
  IN IF dots = {} THEN 0 ELSE CHOOSE k \in dots : \A j \in dots : j <= k

\* path.parse(base).name
ParseName(base) ==
  IF ExtDot(base) = 0 THEN base ELSE SubSeq(base, 1, ExtDot(base) - 1)

\* path.extname(base), with its dot
ExtName(base) ==
  IF ExtDot(base) = 0 THEN <<>> ELSE SubSeq(base, ExtDot(base), Len(base))

\* s.slice(1)
Slice1(s) == IF Len(s) = 0 THEN <<>> ELSE SubSeq(s, 2, Len(s))

\* characters sanitizeFilename replaces by '_' (tests/utils/formatting.test.ts)
InvalidChars == {"<", ">", ":", "\"", "/", "\\", "|", "?", "*", " "}

RECURSIVE SanitizeFrom(_, _, _)
SanitizeFrom(s, k, acc) ==
  IF k > Len(s) THEN acc
  ELSE LET c == IF s[k] \in InvalidChars THEN "_" ELSE s[k]
       IN IF c = "_" /\ Len(acc) > 0 /\ acc[Len(acc)] = "_"
          THEN SanitizeFrom(s, k + 1, acc)
          ELSE SanitizeFrom(s, k + 1, Append(acc, c))

\* utils/formatting sanitizeFilename: invalid characters and blanks become
\* '_', runs of '_' collapse to one
sanitizeFilename(s) == SanitizeFrom(s, 1, <<>>)

RECURSIVE SplitFrom(_, _, _, _, _)
SplitFrom(s, seps, k, cur, acc) ==
  IF k > Len(s) THEN Append(acc, cur)
  ELSE IF s[k] \in seps
       THEN SplitFrom(s, seps, k + 1, <<>>, Append(acc, cur))
       ELSE SplitFrom(s, seps, k + 1, Append(cur, s[k]), acc)

\* s.split(sep) for a set of one-character separators: empty pieces are kept
Split(s, seps) == SplitFrom(s, seps, 1, <<>>, <<>>)

DigitChars == <<"0","1","2","3","4","5","6","7","8","9">>

\* String(n).padStart(2, '0') for a month number n
Pad2(n) ==
  IF n < 10 THEN <<"0", DigitChars[n + 1]>>
  ELSE <<DigitChars[(n \div 10) + 1], DigitChars[(n % 10) + 1]>>

(***************************************************************************)
(* Paths and the file system                                               *)
(***************************************************************************)
\* path.dirname
Dirname(p) == IF Len(p) = 0 THEN p ELSE SubSeq(p, 1, Len(p) - 1)

\* path.basename
Basename(p) == IF Len(p) = 0 THEN <<>> ELSE p[Len(p)]

IsPrefix(p, q) == Len(p) <= Len(q) /\ SubSeq(q, 1, Len(p)) = p

\* every ancestor of p, p included, the root excluded
Ancestors(p) == {SubSeq(p, 1, k) : k \in 1..Len(p)}

IsFile(fs, p) == p \in DOMAIN fs.files

IsDir(fs, p) == p = <<>> \/ p \in fs.dirs

Exists(fs, p) == IsFile(fs, p) \/ IsDir(fs, p)

FsOk(fs) == [ok |-> TRUE, fs |-> fs]

FsErr(fs) == [ok |-> FALSE, fs |-> fs]

\* fs.mkdir(p, {recursive: true}): fails when a component is a file
Mkdirp(fs, p) ==
  IF \E a \in Ancestors(p) : IsFile(fs, a)
  THEN FsErr(fs)
  ELSE FsOk([fs EXCEPT !.dirs = @ \cup Ancestors(p)])

\* fs.writeFile(p, c): the parent must be a directory, p must not be one
WriteFile(fs, p, c) ==
  IF ~IsDir(fs, Dirname(p)) \/ IsDir(fs, p)
  THEN FsErr(fs)
  ELSE FsOk([fs EXCEPT !.files = (p :> c) @@ @])

\* fs.copyFile(a, b): a stays, b is created or overwritten
CopyFile(fs, a, b) ==
  IF ~IsFile(fs, a) \/ ~IsDir(fs, Dirname(b)) \/ IsDir(fs, b)
  THEN FsErr(fs)
  ELSE FsOk([fs EXCEPT !.files = (b :> fs.files[a]) @@ @])

\* what fs.rename is not: a rename that leaves the source behind
RenameKeep(fs, a, b) ==
  IF ~IsFile(fs, a) \/ ~IsDir(fs, Dirname(b)) \/ IsDir(fs, b)
  THEN FsErr(fs)
  ELSE FsOk([fs EXCEPT !.files = (b :> fs.files[a]) @@ @])

\* fs.rename(a, b): b is created or silently replaced, a disappears
Rename(fs, a, b) ==
  IF ~IsFile(fs, a) \/ ~IsDir(fs, Dirname(b)) \/ IsDir(fs, b)
  THEN FsErr(fs)
  ELSE IF a = b THEN FsOk(fs)
  ELSE FsOk([fs EXCEPT !.files =
               [q \in (DOMAIN fs.files \ {a}) \cup {b} |->
                  IF q = b THEN fs.files[a] ELSE fs.files[q]]])

\* fs.rm(p, {recursive: true, force: true})
RmRf(fs, p) ==
  [dirs  |-> {d \in fs.dirs : ~IsPrefix(p, d)},
   files |-> [q \in {f \in DOMAIN fs.files : ~IsPrefix(p, f)} |-> fs.files[q]]]

\* names of the sub-directories of p (readdir withFileTypes, isDirectory)
SubDirNames(fs, p) == {Basename(d) : d \in {e \in fs.dirs : Dirname(e) = p /\ Len(e) > 0}}

(***************************************************************************)
(* path.join                                                               *)
(***************************************************************************)
RECURSIVE NormalizeFrom(_, _, _)
NormalizeFrom(segs, k, acc) ==
  IF k > Len(segs) THEN acc
  ELSE IF segs[k] = <<>> \/ segs[k] = <<".">>
       THEN NormalizeFrom(segs, k + 1, acc)
       ELSE IF segs[k] = <<".", ".">>
            THEN NormalizeFrom(segs, k + 1, Dirname(acc))
            ELSE NormalizeFrom(segs, k + 1, Append(acc, segs[k]))

\* path.join(p, s) for an absolute path p and a string s: s is split on '/',
\* empty and '.' segments vanish, '..' pops a segment
PathJoin(p, s) == NormalizeFrom(p \o Split(s, {"/"}), 1, <<>>)

(***************************************************************************)
(* Types of src/types: FileType values, FileInfo, contents                 *)
(***************************************************************************)
T_document == <<"d","o","c","u","m","e","n","t">>
T_image    == <<"i","m","a","g","e">>
T_code     == <<"c","o","d","e">>
T_data     == <<"d","a","t","a">>
T_archive  == <<"a","r","c","h","i","v","e">>
T_media    == <<"m","e","d","i","a">>
T_unknown  == <<"u","n","k","n","o","w","n">>

\* result of ContentExtractor.extract: null, or a string built from these
Null == [null |-> TRUE]

IsNull(c) == c = Null

(***************************************************************************)
(* ClaudeService (stub heuristics)                                         *)
(***************************************************************************)
\* s.replace(/[._-]/g, ' ')
ReplaceSeparators(s) ==
  [k \in 1..Len(s) |-> IF s[k] \in {".", "_", "-"} THEN " " ELSE s[k]]

\* what line 407 is not: every non-empty word kept, whatever its length
nameWordsAll(file) ==
  SelectSeq(Split(ReplaceSeparators(toLowerCase(file.name)), {" "}),
            LAMBDA w : Len(w) > 0)

\* the filename words of suggestTags
nameWords(file) ==
  SelectSeq(Split(ReplaceSeparators(toLowerCase(file.name)), {" "}),
            LAMBDA w : Len(w) > 3)

\* ClaudeService.suggestTags; confidence in tenths
suggestTags(file) ==
  LET words == nameWords(file)
  IN << [tag |-> <<"t","y","p","e","/">> \o file.type, confidence |-> 10,
         source |-> "type"],
        [tag |-> <<"f","o","r","m","a","t","/">> \o file.extension, confidence |-> 10,
         source |-> "type"],
        [tag |-> <<"d","a","t","e","/">> \o file.mYear \o <<"/">> \o Pad2(file.mMonth),
         confidence |-> 10, source |-> "context"] >>
     \o [k \in 1..Len(words) |->
           [tag |-> <<"t","o","p","i","c","/">> \o words[k], confidence |-> 7,
            source |-> "filename"]]

RECURSIVE FirstMatch(_, _, _, _)
FirstMatch(lowerName, folders, k, dflt) ==
  IF k > Len(folders) THEN dflt
  ELSE IF includes(lowerName, toLowerCase(folders[k])) THEN folders[k]
       ELSE FirstMatch(lowerName, folders, k + 1, dflt)

\* what lines 426-431 are not: the last matching folder wins
suggestCategoryLast(file, existingFolders) ==
  FirstMatch(toLowerCase(file.name),
             [k \in 1..Len(existingFolders) |->
                existingFolders[Len(existingFolders) + 1 - k]],
             1, Capitalize(file.type))

\* ClaudeService.suggestCategory(file, existingFolders).category
suggestCategory(file, existingFolders) ==
  FirstMatch(toLowerCase(file.name), existingFolders, 1, Capitalize(file.type))

\* the CategorySuggestion returned by suggestCategory; confidence in tenths
CategorySuggestion(file, existingFolders) ==
  [category |-> suggestCategory(file, existingFolders), confidence |-> 8,
   reasoning |-> "Based on file type and name analysis"]

(***************************************************************************)
(* FileProcessor: pure parts                                               *)
(***************************************************************************)
\* tagSuggestions.sort((a, b) => b.confidence - a.confidence): stable
SortByConfidence(tags) ==
  SelectSeq(tags, LAMBDA t : t.confidence = 10) \o
  SelectSeq(tags, LAMBDA t : t.confidence # 10)

\* what line 81 is not: every candidate kept
TakeAll(s, n) == s

\* .slice(0, n)
Take(s, n) == SubSeq(s, 1, IF n < Len(s) THEN n ELSE Len(s))

\* the tags of processFile: sort, slice, map(t => t.tag)
fileTags(cfg, file) ==
  LET top == Take(SortByConfidence(suggestTags(file)), cfg.maxTags)
  IN [k \in 1..Len(top) |-> top[k].tag]

\* FileProcessor.mapCategoryToVaultFolder
mapCategoryToVaultFolder(cfg, category) ==
  LET key == toLowerCase(category)
      hit == IF key = T_document THEN cfg.documents
             ELSE IF key = T_image THEN cfg.media
             ELSE IF key = T_code THEN cfg.code
             ELSE IF key = T_media THEN cfg.media
             ELSE <<>>
  IN IF hit = <<>> THEN cfg.references ELSE hit

\* the markdownPath of processFile for a given suffix ('.md', '_archive.md')
markdownPathOf(cfg, file, category, suffix) ==
  PathJoin(PathJoin(cfg.vaultPath, mapCategoryToVaultFolder(cfg, category)),
           sanitizeFilename(ParseName(file.name) \o suffix))

\* utils/formatting getDatePath at the time of the run
getDatePath(now) == now.year \o <<"/">> \o Pad2(now.month)

\* what lines 165-169 are not: the category folder whatever the style
getOriginalFilePathTyped(cfg, now, file, category) ==
  PathJoin(PathJoin(IF cfg.createYearFolders
                    THEN PathJoin(cfg.originalsPath, file.mYear)
                    ELSE cfg.originalsPath,
                    category),
           file.name)

\* FileProcessor.getOriginalFilePath
getOriginalFilePath(cfg, now, file, category) ==
  LET base1 == IF cfg.createYearFolders
               THEN PathJoin(cfg.originalsPath, file.mYear)
               ELSE cfg.originalsPath
      base2 == IF cfg.organizationStyle = "type-based"
               THEN PathJoin(base1, category)
               ELSE IF cfg.organizationStyle = "date-based"
                    THEN PathJoin(base1, getDatePath(now))
                    ELSE base1
  IN PathJoin(base2, file.name)

\* FileProcessor.determineFileType
determineFileType(ext) ==
  LET e == toLowerCase(ext)
  IN IF e \in {<<"p","d","f">>, <<"d","o","c">>, <<"d","o","c","x">>, <<"t","x","t">>,
               <<"m","d">>, <<"r","t","f">>, <<"o","d","t">>} THEN T_document
     ELSE IF e \in {<<"j","p","g">>, <<"j","p","e","g">>, <<"p","n","g">>, <<"g","i","f">>,
                    <<"b","m","p">>, <<"s","v","g">>, <<"w","e","b","p">>} THEN T_image
     ELSE IF e \in {<<"j","s">>, <<"t","s">>, <<"p","y">>, <<"j","a","v","a">>,
                    <<"c","p","p">>, <<"c">>, <<"g","o">>, <<"r","s">>, <<"r","b">>,
                    <<"p","h","p">>} THEN T_code
     ELSE IF e \in {<<"j","s","o","n">>, <<"c","s","v">>, <<"x","m","l">>,
                    <<"y","a","m","l">>, <<"y","m","l">>} THEN T_data
     ELSE IF e \in {<<"m","p","3">>, <<"w","a","v">>, <<"m","p","4">>, <<"a","v","i">>,
                    <<"m","o","v">>, <<"m","k","v">>} THEN T_media
     ELSE IF e \in {<<"z","i","p">>, <<"r","a","r">>, <<"t","a","r">>, <<"g","z">>,
                    <<"7","z">>} THEN T_archive
     ELSE T_unknown

(***************************************************************************)
(* ContentExtractor                                                        *)
(***************************************************************************)
MAX_FILE_SIZE == 10485760

MEDIA_MAX_SIZE == 52428800

\* the character codes /[\x00-\x08\x0B-\x0C\x0E-\x1F]/ matches
IsControlCode(c) == c \in 0..8 \/ c \in 11..12 \/ c \in 14..31

\* the string readFile(path, 'utf-8') gives for a file holding these character
\* codes: its characters, the number of matches of the control-character
\* pattern in it, its length
Text(codes) ==
  [raw |-> codes, ctrl |-> Len(SelectSeq(codes, IsControlCode)), len |-> Len(codes)]

\* what line 481 is not: exactly 10% control characters still pass as text
isTextContentAtMost(content) ==
  IF "ctrl" \in DOMAIN content
  THEN content.ctrl = 0 \/ content.ctrl * 10 <= content.len
  ELSE FALSE

\* ContentExtractor.isTextContent: no match, or fewer matches than
\* content.length * 0.1.  For lengths up to 2^40 the double product, compared
\* with an integer count, decides as 10 * ctrl < len does.
isTextContent(content) ==
  IF "ctrl" \in DOMAIN content
  THEN content.ctrl = 0 \/ content.ctrl * 10 < content.len
  ELSE FALSE

\* an error thrown inside the extractor
Thrown(e) == [threw |-> e]

IsThrown(r) == "threw" \in DOMAIN r

\* a string that is falsy in 'x || null'
IsEmptyText(c) == "len" \in DOMAIN c /\ c.len = 0

\* ContentExtractor.extractText: readFile without a try of its own
extractText(fs, file) ==
  IF IsFile(fs, file.path) THEN [text |-> fs.files[file.path]]
  ELSE Thrown([syscall |-> "open", path |-> file.path])

\* ContentExtractor.extractBasic: its catch returns null
extractBasic(fs, file) ==
  IF IsFile(fs, file.path) /\ isTextContent(fs.files[file.path])
  THEN [text |-> fs.files[file.path]]
  ELSE Null

\* ContentExtractor.extractDocument; env.pdfParse and env.mammoth tell
\* whether the optional libraries load.  extractPDF, extractDOCX and
\* extractHTML catch their own errors.
extractDocument(fs, env, file) ==
  LET e == toLowerCase(file.extension)
  IN IF e \in {<<"t","x","t">>, <<"m","d">>, <<"m","a","r","k","d","o","w","n">>,
               <<"r","t","f">>}
     THEN extractText(fs, file)
     ELSE IF e = <<"p","d","f">>
          THEN IF env.pdfParse /\ IsFile(fs, file.path)
                  /\ ~IsEmptyText(fs.files[file.path])
               THEN [pdfText |-> fs.files[file.path]] ELSE Null
     ELSE IF e \in {<<"d","o","c","x">>, <<"d","o","c">>}
          THEN IF env.mammoth /\ IsFile(fs, file.path)
                  /\ ~IsEmptyText(fs.files[file.path])
               THEN [docxText |-> fs.files[file.path]] ELSE Null
     ELSE IF e \in {<<"h","t","m","l">>, <<"h","t","m">>}
          THEN IF IsFile(fs, file.path)
               THEN [htmlText |-> fs.files[file.path]] ELSE Null
     ELSE Null

\* what lines 286-290 are not: a file of exactly the ceiling is rejected too
tooLargeAtLimit(file) ==
  file.size >= (IF file.type \in {T_image, T_media} THEN MEDIA_MAX_SIZE
                ELSE MAX_FILE_SIZE)

\* lines 286-290: the size check of extract
tooLarge(file) ==
  file.size > (IF file.type \in {T_image, T_media} THEN MEDIA_MAX_SIZE
               ELSE MAX_FILE_SIZE)

\* lines 294-308: the switch of extract
extractByType(fs, env, file) ==
  IF file.type = T_document THEN extractDocument(fs, env, file)
  ELSE IF file.type \in {T_code, T_data} THEN extractText(fs, file)
  ELSE IF file.type = T_image
       THEN [image |-> file.name, probed |-> IsFile(fs, file.path)]
  ELSE IF file.type = T_media
       THEN [media |-> file.name, ext |-> toLowerCase(file.extension),
             size |-> file.size]
  ELSE IF file.type = T_archive
       THEN [archive |-> file.name, ext |-> toLowerCase(file.extension),
             size |-> file.size]
  ELSE extractBasic(fs, file)

\* what lines 309-312 are not: the error goes on to the caller
catchNone(r) == r

\* lines 309-312: the catch of extract
catchAll(r) == IF IsThrown(r) THEN Null ELSE r

\* ContentExtractor.extract
extract(fs, env, file) ==
  catchAll(IF tooLarge(file) THEN Null ELSE extractByType(fs, env, file))

\* the paths extract(file) asks the file system or a library to read
extractReads(fs, env, file) ==
  LET e == toLowerCase(file.extension)
  IN IF tooLarge(file) THEN <<>>
     ELSE IF file.type = T_document
          THEN IF e \in {<<"t","x","t">>, <<"m","d">>, <<"m","a","r","k","d","o","w","n">>,
                         <<"r","t","f">>, <<"h","t","m","l">>, <<"h","t","m">>}
               THEN <<file.path>>
               ELSE IF e = <<"p","d","f">> /\ env.pdfParse THEN <<file.path>>
               ELSE IF e \in {<<"d","o","c","x">>, <<"d","o","c">>} /\ env.mammoth
                    THEN <<file.path>>
               ELSE <<>>
     ELSE IF file.type \in {T_media, T_archive} THEN <<>>
     ELSE <<file.path>>

(***************************************************************************)
(* MarkdownGenerator                                                       *)
(***************************************************************************)
\* MarkdownGenerator.generate: the frontmatter block, the title heading, the
\* body chosen by file type from the extracted content, the footer
generate(file, content, frontmatter) ==
  [frontmatter |-> frontmatter,
   title       |-> frontmatter.title,
   body        |-> [section |-> IF file.type \in {T_image, T_code, T_document}
                                THEN file.type ELSE <<"d","e","f","a","u","l","t">>,
                    content |-> IF file.type = T_image THEN Null ELSE content],
   footer      |-> [name |-> file.name, path |-> file.path]]

(***************************************************************************)
(* FileProcessor: the per-file steps                                       *)
(***************************************************************************)
\* no error was thrown
NoErr == [none |-> TRUE]

\* what lines 111-123 are not: the original moved or copied before the
\* markdown is written
placeFilesMoveFirst(fs, options, file, markdownPath, originalNewPath, markdownContent, failAt) ==
  IF options.dryRun THEN [ok |-> TRUE, fs |-> fs, err |-> [none |-> TRUE], fired |-> FALSE]
  ELSE
    LET r1 == IF failAt = 1 THEN FsErr(fs) ELSE Mkdirp(fs, Dirname(markdownPath))
        r2 == IF ~r1.ok THEN r1
              ELSE IF failAt = 2 THEN FsErr(r1.fs)
              ELSE Mkdirp(r1.fs, Dirname(originalNewPath))
        r3 == IF ~r2.ok THEN r2
              ELSE IF failAt = 4 THEN FsErr(r2.fs)
              ELSE IF options.copy THEN CopyFile(r2.fs, file.path, originalNewPath)
              ELSE Rename(r2.fs, file.path, originalNewPath)
        r4 == IF ~r3.ok THEN r3
              ELSE IF failAt = 3 THEN FsErr(r3.fs)
              ELSE WriteFile(r3.fs, markdownPath, [md |-> markdownContent])
    IN [ok |-> r4.ok, fs |-> r4.fs,
        err |-> IF ~r1.ok THEN [syscall |-> "mkdir", path |-> Dirname(markdownPath)]
                ELSE IF ~r2.ok THEN [syscall |-> "mkdir", path |-> Dirname(originalNewPath)]
                ELSE IF ~r3.ok THEN [syscall |-> IF options.copy THEN "copyfile" ELSE "rename",
                                     path |-> file.path]
                ELSE IF ~r4.ok THEN [syscall |-> "open", path |-> markdownPath]
                ELSE [none |-> TRUE],
        fired |-> \/ failAt = 1
                  \/ failAt = 2 /\ r1.ok
                  \/ failAt = 4 /\ r2.ok
                  \/ failAt = 3 /\ r3.ok]

\* lines 111-123 of processFile (and the same block of
\* processArchiveRecursively and processFileAsNormal): unless dry run, create
\* both parent directories, write the markdown, copy or rename the original.
\* failAt = k > 0 makes the k-th file-system call fail (disk full, no
\* permission); fired tells whether that call was reached.
placeFiles(fs, options, file, markdownPath, originalNewPath, markdownContent, failAt) ==
  IF options.dryRun THEN [ok |-> TRUE, fs |-> fs, err |-> NoErr, fired |-> FALSE]
  ELSE
    LET r1 == IF failAt = 1 THEN FsErr(fs) ELSE Mkdirp(fs, Dirname(markdownPath))
        r2 == IF ~r1.ok THEN r1
              ELSE IF failAt = 2 THEN FsErr(r1.fs)
              ELSE Mkdirp(r1.fs, Dirname(originalNewPath))
        r3 == IF ~r2.ok THEN r2
              ELSE IF failAt = 3 THEN FsErr(r2.fs)
              ELSE WriteFile(r2.fs, markdownPath, [md |-> markdownContent])
        r4 == IF ~r3.ok THEN r3
              ELSE IF failAt = 4 THEN FsErr(r3.fs)
              ELSE IF options.copy THEN CopyFile(r3.fs, file.path, originalNewPath)
              ELSE Rename(r3.fs, file.path, originalNewPath)
    IN [ok |-> r4.ok, fs |-> r4.fs,
        err |-> IF ~r1.ok THEN [syscall |-> "mkdir", path |-> Dirname(markdownPath)]
                ELSE IF ~r2.ok THEN [syscall |-> "mkdir", path |-> Dirname(originalNewPath)]
                ELSE IF ~r3.ok THEN [syscall |-> "open", path |-> markdownPath]
                ELSE IF ~r4.ok THEN [syscall |-> IF options.copy THEN "copyfile" ELSE "rename",
                                     path |-> file.path]
                ELSE NoErr,
        fired |-> \/ failAt = 1
                  \/ failAt = 2 /\ r1.ok
                  \/ failAt = 3 /\ r2.ok
                  \/ failAt = 4 /\ r3.ok]

\* the record processFile returns
ProcessedFile(file, markdownPath, originalNewPath, content, frontmatter, tags, category) ==
  [original |-> file, markdownPath |-> markdownPath,
   originalNewPath |-> originalNewPath, content |-> content,
   frontmatter |-> frontmatter, tags |-> tags, category |-> category]

\* lines 74-109 of processFile, for a file that is not an archive: extract,
\* tags, category, paths, frontmatter, markdown.  existingFolders is what
\* getExistingVaultFolders returned.
filePlan(fs, cfg, now, env, file, existingFolders) ==
  LET content         == extract(fs, env, file)
      tags            == fileTags(cfg, file)
      category        == suggestCategory(file, existingFolders)
      markdownPath    == markdownPathOf(cfg, file, category, <<".","m","d">>)
      originalNewPath == getOriginalFilePath(cfg, now, file, category)
      frontmatter     == [title |-> ParseName(file.name),
                          originalFile |-> originalNewPath,
                          sourceLocation |-> file.path,
                          fileType |-> file.extension,
                          tags |-> tags]
      markdownContent == generate(file, content, frontmatter)
  IN ProcessedFile(file, markdownPath, originalNewPath, markdownContent,
                   frontmatter, tags, category)

\* an error that left extract (line 75) ends processFile there
extractionThrew(plan) == IsThrown(plan.content.body.content)

\* what lines 111-134 are not: the file operations done whatever dryRun says
placePlanWet(fs, options, plan, failAt) ==
  LET placed == placeFiles(fs, [options EXCEPT !.dryRun = FALSE], plan.original,
                           plan.markdownPath, plan.originalNewPath, plan.content,
                           failAt)
  IN [ok |-> placed.ok, fs |-> placed.fs, fired |-> placed.fired, err |-> placed.err,
      pf |-> plan]

\* lines 111-134: the file operations for a computed ProcessedFile, and the
\* return or throw
placePlan(fs, options, plan, failAt) ==
  LET placed == placeFiles(fs, options, plan.original, plan.markdownPath,
                           plan.originalNewPath, plan.content, failAt)
  IN IF extractionThrew(plan)
     THEN [ok |-> FALSE, fs |-> fs, fired |-> FALSE,
           err |-> plan.content.body.content.threw, pf |-> plan]
     ELSE [ok |-> placed.ok, fs |-> placed.fs, fired |-> placed.fired,
           err |-> placed.err, pf |-> plan]

\* processFile for a file that is not an archive (lines 74-134)
processFilePlain(fs, cfg, now, env, options, file, existingFolders, failAt) ==
  placePlan(fs, options, filePlan(fs, cfg, now, env, file, existingFolders), failAt)

\* what line 189 is not: the document of an archive without members, named
\* <stem>_archive.md and marked as expanded
processFileAsArchive(fs, options, plan, failAt) ==
  placePlan(fs, options,
            [plan EXCEPT
               !.markdownPath = Append(Dirname(@), ParseName(Basename(@))
                                         \o <<"_","a","r","c","h","i","v","e",".","m","d">>),
               !.frontmatter = [f \in DOMAIN @ \cup {"archiveType", "extractedFiles"} |->
                                  IF f = "archiveType" THEN "expanded"
                                  ELSE IF f = "extractedFiles" THEN 0 ELSE @[f]]],
            failAt)

\* FileProcessor.processFileAsNormal (lines 324-380): the same steps, for an
\* archive that yielded no entries; plan is its filePlan
processFileAsNormal(fs, options, plan, failAt) == placePlan(fs, options, plan, failAt)

(***************************************************************************)
(* FileProcessor: archives                                                 *)
(***************************************************************************)
RECURSIVE StripLeadingSlashes(_)
\* s.replace(/^\/+/, '')
StripLeadingSlashes(s) ==
  IF Len(s) > 0 /\ s[1] = "/" THEN StripLeadingSlashes(Slice1(s)) ELSE s

RECURSIVE RemoveDotDotFrom(_, _, _)
RemoveDotDotFrom(s, k, acc) ==
  IF k > Len(s) THEN acc
  ELSE IF k < Len(s) /\ s[k] = "." /\ s[k + 1] = "."
       THEN RemoveDotDotFrom(s, k + 2, acc)
       ELSE RemoveDotDotFrom(s, k + 1, Append(acc, s[k]))

\* what line 298 is not: an entry path joined with its '..' left in
RemoveDotDotNone(s) == s

\* s.replace(/\.\./g, ''): one pass, left to right, non-overlapping
RemoveDotDot(s) == RemoveDotDotFrom(s, 1, <<>>)

\* the safePath of extractArchive (line 298)
safePath(outputDir, entryPath) ==
  PathJoin(outputDir, RemoveDotDot(StripLeadingSlashes(entryPath)))

RECURSIVE ExtractEntries(_, _, _, _, _, _)
\* the loop of extractArchive over archive.files from entry k on: an entry
\* is written when it has no type ("") or the type 'File' (line 296); the
\* first failing call ends the loop (the catch of line 309) and what was
\* extracted so far is returned; failAt = k makes the write of entry k fail
ExtractEntries(fs, entries, outputDir, k, acc, failAt) ==
  IF k > Len(entries) THEN [fs |-> fs, extractedFiles |-> acc, fired |-> FALSE]
  ELSE IF entries[k].type \notin {"", "File"}
       THEN ExtractEntries(fs, entries, outputDir, k + 1, acc, failAt)
  ELSE LET sp == safePath(outputDir, entries[k].path)
           r1 == Mkdirp(fs, Dirname(sp))
           r2 == IF ~r1.ok THEN r1
                 ELSE IF failAt = k THEN FsErr(r1.fs)
                 ELSE WriteFile(r1.fs, sp, entries[k].data)
       IN IF r2.ok
          THEN ExtractEntries(r2.fs, entries, outputDir, k + 1, Append(acc, sp), failAt)
          ELSE [fs |-> r2.fs, extractedFiles |-> acc, fired |-> failAt = k /\ r1.ok]

\* FileProcessor.extractArchive: never throws; only .zip, only when the
\* unzipper package loads and the file opens as a zip
extractArchive(fs, env, file, outputDir, failAt) ==
  IF /\ toLowerCase(file.extension) = <<"z","i","p">>
     /\ env.unzipper = "loads"
     /\ IsFile(fs, file.path)
     /\ "zip" \in DOMAIN fs.files[file.path]
  THEN ExtractEntries(fs, fs.files[file.path].zip, outputDir, 1, <<>>, failAt)
  ELSE [fs |-> fs, extractedFiles |-> <<>>, fired |-> FALSE]

\* the FileInfo processArchiveRecursively builds for an extracted file
\* (lines 200-209); the file was written during this run
memberFileInfo(fs, now, extractedFile) ==
  [path      |-> extractedFile,
   name      |-> Basename(extractedFile),
   extension |-> toLowerCase(Slice1(ExtName(Basename(extractedFile)))),
   size      |-> IF "len" \in DOMAIN fs.files[extractedFile]
                 THEN fs.files[extractedFile].len ELSE 1,
   mYear     |-> now.year,
   mMonth    |-> now.month,
   type      |-> determineFileType(toLowerCase(Slice1(ExtName(Basename(extractedFile)))))]

RECURSIVE Dedup(_, _, _)
\* insertion order of a JavaScript Set / of the keys of an object
Dedup(s, k, acc) ==
  IF k > Len(s) THEN acc
  ELSE IF \E j \in 1..Len(acc) : acc[j] = s[k]
       THEN Dedup(s, k + 1, acc)
       ELSE Dedup(s, k + 1, Append(acc, s[k]))

RECURSIVE Flatten(_, _)
Flatten(ss, k) == IF k > Len(ss) THEN <<>> ELSE ss[k] \o Flatten(ss, k + 1)

\* path.relative(vault, p).replace(/\.md$/, '') for p under the vault
linkTarget(cfg, p) ==
  LET rel  == SubSeq(p, Len(cfg.vaultPath) + 1, Len(p))
      base == Basename(rel)
  IN IF Len(rel) > 0 /\ endsWith(base, <<".","m","d">>)
     THEN Append(Dirname(rel), SubSeq(base, 1, Len(base) - 3))
     ELSE rel

\* FileProcessor.generateArchiveSummary: the children grouped by category,
\* categories in order of first appearance
generateArchiveSummary(cfg, archiveFile, extractedFiles) ==
  LET cats == Dedup([k \in 1..Len(extractedFiles) |-> extractedFiles[k].category],
                    1, <<>>)
      group(c) == SelectSeq(extractedFiles, LAMBDA f : f.category = c)
  IN [summaryOf |-> archiveFile.name,
      count     |-> Len(extractedFiles),
      groups    |-> [k \in 1..Len(cats) |->
                       [heading |-> Capitalize(cats[k]),
                        links   |-> [j \in 1..Len(group(cats[k])) |->
                           [target |-> linkTarget(cfg, group(cats[k])[j].markdownPath),
                            name   |-> ParseName(group(cats[k])[j].original.name)]]]]]

\* tag.split('/').pop()
LastPiece(tag) == Split(tag, {"/"})[Len(Split(tag, {"/"}))]

RECURSIVE SortByCount(_, _, _)
\* stable sort of tags by descending count, counts in 1..c
SortByCount(tags, count, c) ==
  IF c = 0 THEN <<>>
  ELSE SelectSeq(tags, LAMBDA t : count[t] = c) \o SortByCount(tags, count, c - 1)

\* FileProcessor.generateArchiveTags
generateArchiveTags(cfg, archiveFile, extractedFiles) ==
  LET base == << <<"t","y","p","e","/">> \o T_archive,
                 <<"f","o","r","m","a","t","/">> \o archiveFile.extension,
                 <<"s","o","u","r","c","e","/","e","x","p","a","n","d","e","d">>,
                 <<"d","a","t","e","/">> \o archiveFile.mYear \o <<"/">>
                    \o Pad2(archiveFile.mMonth) >>
      all == Flatten([k \in 1..Len(extractedFiles) |-> extractedFiles[k].tags], 1)
      childTags == Dedup(SelectSeq(all, LAMBDA t :
                      /\ ~startsWith(t, <<"t","y","p","e","/">>)
                      /\ ~startsWith(t, <<"f","o","r","m","a","t","/">>)), 1, <<>>)
      count == [t \in {childTags[n] : n \in 1..Len(childTags)} |->
                  Cardinality({k \in 1..Len(extractedFiles) :
                                 \E j \in 1..Len(extractedFiles[k].tags) :
                                    extractedFiles[k].tags[j] = t})]
      top == Take(SortByCount(childTags, count, Len(extractedFiles)), 5)
      contains == [k \in 1..Len(top) |->
                     <<"c","o","n","t","a","i","n","s","/">> \o LastPiece(top[k])]
  IN Take(Dedup(base \o contains, 1, <<>>), cfg.maxTags)

\* lines 219-247 of processArchiveRecursively: the archive's own summary
\* document
archivePlan(cfg, now, file, childResults, existingFolders) ==
  LET archiveContent  == generateArchiveSummary(cfg, file, childResults)
      tags            == generateArchiveTags(cfg, file, childResults)
      category        == suggestCategory(file, existingFolders)
      markdownPath    == markdownPathOf(cfg, file, category,
                           <<"_","a","r","c","h","i","v","e",".","m","d">>)
      originalNewPath == getOriginalFilePath(cfg, now, file, category)
      frontmatter     == [title |-> <<"A","r","c","h","i","v","e",":"," ">>
                                      \o ParseName(file.name),
                          originalFile |-> originalNewPath,
                          sourceLocation |-> file.path,
                          fileType |-> file.extension,
                          archiveType |-> "expanded",
                          extractedFiles |-> Len(childResults),
                          tags |-> tags]
      markdownContent == generate(file, archiveContent, frontmatter)
  IN ProcessedFile(file, markdownPath, originalNewPath, markdownContent,
                   frontmatter, tags, category)

(***************************************************************************)
(* The run: configuration, inputs, initial file system                     *)
(***************************************************************************)
\* longest batch handed to processFiles
MaxBatch == 2

\* number of file-system calls that fail for outside reasons in one run
MaxFaults == 1

S_vault == <<"v","a","u","l","t">>
S_orig  == <<"o","r","i","g">>
S_tmp   == <<"t","m","p">>
S_src1  == <<"s","r","c","1">>
S_src2  == <<"s","r","c","2">>
S_txt   == <<"t","x","t">>
S_zip   == <<"z","i","p">>

\* the configuration of tests/modules/ContentExtractor.test.ts
TestConfig ==
  [vaultPath         |-> <<S_vault>>,
   documents         |-> <<"D","o","c","u","m","e","n","t","s">>,
   media             |-> <<"M","e","d","i","a">>,
   code              |-> <<"C","o","d","e">>,
   references        |-> <<"R","e","f","e","r","e","n","c","e","s">>,
   originalsPath     |-> <<S_orig>>,
   organizationStyle |-> "type-based",
   createYearFolders |-> TRUE,
   maxTags           |-> 5]

Configs == {TestConfig}

\* the date of the run
Now == [year |-> <<"2","0","2","6">>, month |-> 11]

Raw(id) == [raw |-> id, ctrl |-> 0, len |-> 12]

ZipEntry(p, data) == [path |-> p, type |-> "File", data |-> data]

InnerZip == [zip |-> << ZipEntry(<<"k",".","t","x","t">>, Raw("c5")) >>]

OuterZip ==
  [zip |-> << ZipEntry(<<"m",".","t","x","t">>, Raw("c4")),
              [path |-> <<"d","/">>, type |-> "Directory", data |-> Raw("")],
              ZipEntry(<<"d","/","n",".","z","i","p">>, InnerZip) >>]

FileInfoOf(dir, name, ext, type) ==
  [path |-> <<dir, name>>, name |-> name, extension |-> ext, size |-> 1024,
   mYear |-> <<"2","0","2","4">>, mMonth |-> 1, type |-> type]

F_a1   == FileInfoOf(S_src1, <<"a",".","t","x","t">>, S_txt, T_document)
F_a2   == FileInfoOf(S_src2, <<"a",".","t","x","t">>, S_txt, T_document)
F_docs == FileInfoOf(S_src1, <<"d","o","c","u","m","e","n","t","s",".","t","x","t">>,
                     S_txt, T_document)
F_gone == FileInfoOf(S_src1, <<"g","o","n","e",".","t","x","t">>, S_txt, T_document)
F_zip  == FileInfoOf(S_src1, <<"p",".","z","i","p">>, S_zip, T_archive)

\* the files a scan can hand over; F_gone vanished after the scan
Universe == {F_a1, F_a2, F_docs, F_gone, F_zip}

\* the file system before the run: the sources, an empty temp directory,
\* no vault and no originals tree yet
InitFs ==
  [dirs  |-> {<<S_tmp>>, <<S_src1>>, <<S_src2>>},
   files |-> (F_a1.path :> Raw("c1")) @@ (F_a2.path :> Raw("c2")) @@
             (F_docs.path :> Raw("c3")) @@ (F_zip.path :> OuterZip)]

\* The input lists: a scan lists every path once.  An archive brings its
\* members with it, so it counts for two of the MaxBatch inputs.
Batches ==
  {b \in UNION {[1..n -> Universe] : n \in 0..MaxBatch} :
     /\ \A j, k \in DOMAIN b : b[j] = b[k] => j = k
     /\ (\E k \in DOMAIN b : b[k].type = T_archive) => Len(b) < MaxBatch}

\* orderings of a finite set
Perms(S) ==
  {q \in [1..Cardinality(S) -> S] : \A a, b \in 1..Cardinality(S) : q[a] = q[b] => a = b}

\* FileProcessor.getExistingVaultFolders: the sub-directories of the vault
\* whose name does not start with '.', in the order readdir lists them (any
\* order); the empty list when the vault cannot be read
getExistingVaultFolders(fs, cfg) ==
  IF ~IsDir(fs, cfg.vaultPath) THEN {<<>>}
  ELSE Perms({d \in SubDirNames(fs, cfg.vaultPath) : ~startsWith(d, <<".">>)})

Digits == <<"1","2","3","4","5","6","7","8","9">>

\* fs.mkdtemp(path.join(os.tmpdir(), 'polish-archive-')): a fresh directory
\* in the temp directory, its name made unique by the n-th suffix
mkdtempPath(n) == <<S_tmp, <<"p","-", Digits[n]>> >>

(***************************************************************************)
(* ProfileManager: profiles are files <name>.json of ~/.polish/profiles,   *)
(* the active profile is the content of ~/.polish/active-profile           *)
(***************************************************************************)
S_default == <<"d", "e", "f", "a", "u", "l", "t">>

S_json == <<".", "j", "s", "o", "n">>

polishDir == <<<<"h", "o", "m", "e">>, <<".", "p", "o", "l", "i", "s", "h">>>>

profilesDir == Append(polishDir, <<"p", "r", "o", "f", "i", "l", "e", "s">>)

activeProfileFile == Append(polishDir, <<"a", "c", "t", "i", "v", "e", "-", "p", "r", "o", "f", "i", "l", "e">>)

\* fs.unlink(p)
Unlink(fs, p) ==
  IF ~IsFile(fs, p) THEN FsErr(fs)
  ELSE FsOk([fs EXCEPT !.files = [q \in DOMAIN fs.files \ {p} |-> fs.files[q]]])

RECURSIVE TrimStart(_)
TrimStart(s) == IF Len(s) > 0 /\ s[1] = " " THEN TrimStart(Slice1(s)) ELSE s

RECURSIVE TrimEnd(_)
TrimEnd(s) ==
  IF Len(s) > 0 /\ s[Len(s)] = " " THEN TrimEnd(SubSeq(s, 1, Len(s) - 1)) ELSE s

\* String.prototype.trim
Trim(s) == TrimEnd(TrimStart(s))

\* a resolved call with its value, a rejected call with its message; fs is the
\* file system the call leaves
Resolved(fs, val) == [ok |-> TRUE, fs |-> fs, val |-> val]

Rejected(fs, msg) == [ok |-> FALSE, fs |-> fs, err |-> msg]

\* ProfileManager.getProfilePath: path.join(profilesDir, name + '.json')
getProfilePath(name) == PathJoin(profilesDir, name \o S_json)

\* ProfileManager.getProfile(name) reads and parses a profile (lines 64-72)
HasProfile(fs, name) ==
  /\ IsFile(fs, getProfilePath(name))
  /\ "profile" \in DOMAIN fs.files[getProfilePath(name)]

\* ProfileManager.getProfile, for a name that HasProfile
getProfile(fs, name) == fs.files[getProfilePath(name)].profile

\* ProfileManager.getActiveProfile() is a name
HasActive(fs) == IsFile(fs, activeProfileFile)

\* ProfileManager.getActiveProfile(), when there is one
getActiveProfile(fs) == Trim(fs.files[activeProfileFile].active)

\* the characters of /^[a-zA-Z0-9_-]+$/
NameCharSet == LowerSet \cup UpperSet \cup {DigitChars[k] : k \in 1..10} \cup {"_", "-"}

\* line 357
nameTooLong(name) == Len(name) > 50

\* what lines 349-366 are not: an existing name passes
validateProfileNameLoose(fs, name) ==
  IF Len(Trim(name)) = 0 THEN "Profile name cannot be empty"
  ELSE IF \E k \in 1..Len(name) : name[k] \notin NameCharSet
       THEN "Profile name can only contain letters, numbers, hyphens, and underscores"
  ELSE IF nameTooLong(name) THEN "Profile name cannot be longer than 50 characters"
  ELSE "ok"

\* ProfileManager.validateProfileName: "ok" or the message of the error
validateProfileName(fs, name) ==
  IF Len(Trim(name)) = 0 THEN "Profile name cannot be empty"
  ELSE IF \E k \in 1..Len(name) : name[k] \notin NameCharSet
       THEN "Profile name can only contain letters, numbers, hyphens, and underscores"
  ELSE IF nameTooLong(name) THEN "Profile name cannot be longer than 50 characters"
  ELSE IF HasProfile(fs, name) THEN "already exists"
  ELSE "ok"

\* the write of a profile file
writeProfile(fs, name, profile) == WriteFile(fs, getProfilePath(name), [profile |-> profile])

\* ProfileManager.createProfile at time t
createProfile(fs, t, name, cfg, description) ==
  LET profile == [name |-> name, description |-> description, config |-> cfg,
                  createdAt |-> t, lastUsed |-> t]
      w == writeProfile(fs, name, profile)
  IN IF validateProfileName(fs, name) # "ok"
     THEN Rejected(fs, validateProfileName(fs, name))
     ELSE IF w.ok THEN Resolved(w.fs, profile) ELSE Rejected(fs, "write")

\* ProfileManager.updateProfile at time t; updates holds description, config,
\* both or neither
updateProfile(fs, t, name, updates) ==
  LET profile == getProfile(fs, name)
      merged  == [f \in DOMAIN profile |->
                    IF f = "lastUsed" THEN t
                    ELSE IF f \in DOMAIN updates THEN updates[f] ELSE profile[f]]
      w == writeProfile(fs, name, merged)
  IN IF ~HasProfile(fs, name) THEN Rejected(fs, "not found")
     ELSE IF w.ok THEN Resolved(w.fs, merged) ELSE Rejected(fs, "write")

\* ProfileManager.setActiveProfile at time t
setActiveProfile(fs, t, name) ==
  LET w == WriteFile(fs, activeProfileFile, [active |-> name])
  IN IF ~HasProfile(fs, name) THEN Rejected(fs, "not found")
     ELSE IF ~w.ok THEN Rejected(fs, "write")
     ELSE updateProfile(w.fs, t, name, <<>>)

\* ProfileManager.deleteProfile at time t
deleteProfile(fs, t, name) ==
  LET sw == IF HasActive(fs) /\ getActiveProfile(fs) = name
            THEN setActiveProfile(fs, t, S_default)
            ELSE Resolved(fs, "void")
  IN IF name = S_default THEN Rejected(fs, "Cannot delete the default profile")
     ELSE IF ~HasProfile(fs, name) THEN Rejected(fs, "not found")
     ELSE IF ~sw.ok THEN sw
     ELSE Resolved(Unlink(sw.fs, getProfilePath(name)).fs, "void")

\* ProfileManager.cloneProfile at time t
cloneProfile(fs, t, sourceName, targetName, description) ==
  IF ~HasProfile(fs, sourceName) THEN Rejected(fs, "not found")
  ELSE createProfile(fs, t, targetName, getProfile(fs, sourceName).config, description)

\* ProfileManager.renameProfile at time t
renameProfile(fs, t, oldName, newName) ==
  IF oldName = S_default THEN Rejected(fs, "Cannot rename the default profile")
  ELSE IF validateProfileName(fs, newName) # "ok"
       THEN Rejected(fs, validateProfileName(fs, newName))
  ELSE IF ~HasProfile(fs, oldName) THEN Rejected(fs, "not found")
  ELSE
    LET w  == writeProfile(fs, newName,
                [getProfile(fs, oldName) EXCEPT !.name = newName, !.lastUsed = t])
        sw == IF HasActive(w.fs) /\ getActiveProfile(w.fs) = oldName
              THEN setActiveProfile(w.fs, t, newName)
              ELSE Resolved(w.fs, "void")
        u  == Unlink(sw.fs, getProfilePath(oldName))
    IN IF ~w.ok THEN Rejected(fs, "write")
       ELSE IF ~sw.ok THEN sw
       ELSE IF u.ok THEN Resolved(u.fs, "void") ELSE Rejected(u.fs, "unlink")

RECURSIVE importFrom(_, _, _, _, _, _)
\* the loop of importProfiles from entry k on; imported is the list so far
importFrom(fs, t, importedProfiles, overwrite, k, imported) ==
  IF k > Len(importedProfiles) THEN Resolved(fs, imported)
  ELSE LET profile == importedProfiles[k]
           c == createProfile(fs, t, profile.name, profile.config, profile.description)
       IN IF HasProfile(fs, profile.name) /\ ~overwrite
          THEN importFrom(fs, t, importedProfiles, overwrite, k + 1, imported)
          ELSE IF ~c.ok THEN Rejected(c.fs, c.err)
          ELSE importFrom(c.fs, t, importedProfiles, overwrite, k + 1,
                          Append(imported, profile.name))

\* ProfileManager.importProfiles at time t, for a file that parses to the
\* array importedProfiles
importProfiles(fs, t, importedProfiles, overwrite) ==
  importFrom(fs, t, importedProfiles, overwrite, 1, <<>>)

\* names of the profile files of the store (readdir, '.json' files)
StoredNames(fs) ==
  {SubSeq(Basename(f), 1, Len(Basename(f)) - Len(S_json)) :
     f \in {g \in DOMAIN fs.files : Dirname(g) = profilesDir /\ endsWith(Basename(g), S_json)}}

\* ProfileManager.initialize at time t.  legacy is the legacy configuration
\* (config.json of ~/.polish) or Null; defaults is the default configuration;
\* first is the name listProfiles() puts first
initialize(fs, t, legacy, defaults, first) ==
  LET m   == Mkdirp(fs, profilesDir).fs
      c   == createProfile(m, t, S_default, IF legacy = Null THEN defaults ELSE legacy,
                           IF legacy = Null THEN "Default profile"
                           ELSE "Migrated from legacy configuration")
      made == IF StoredNames(m) # {} THEN m
              ELSE IF c.ok THEN setActiveProfile(c.fs, t, S_default).fs ELSE c.fs
  IN IF ~HasActive(made) /\ first \in StoredNames(made)
     THEN setActiveProfile(made, t, first).fs
     ELSE made

(***************************************************************************)
(* The Polish class of the package entry point.  An object is a value with *)
(* an identity: === compares identities.                                   *)
(***************************************************************************)
\* the values of ConfigService.getDefaultConfig(): the vault is ObsidianVault
DefaultConfigValue == [TestConfig EXCEPT !.vaultPath = <<<<"O", "b", "s", "i", "d", "i", "a", "n", "V", "a", "u", "l", "t">>>>]

\* ConfigService.getDefaultConfig(): a new object at every call, which its
\* callers go on to modify; n is the number of objects made before
getDefaultConfig(n) == [id |-> n + 1, value |-> DefaultConfigValue]

\* a === b
SameObject(a, b) == a.id = b.id

\* Polish.loadConfig at time n, for a Polish whose config is cur: the config
\* it leaves and the file system it leaves.  Every error is caught and warned
\* about (lines 47-49).
loadConfig(fs, n, cur, profileName) ==
  LET init == initialize(fs, n, Null, DefaultConfigValue, S_default)
  IN IF profileName # <<>>
     THEN [fs |-> init,
           config |-> IF HasProfile(init, profileName)
                      THEN [id |-> n + 1, value |-> getProfile(init, profileName).config]
                      ELSE cur]
     ELSE [fs |-> init,
           config |-> IF HasActive(init) /\ Len(getActiveProfile(init)) > 0
                         /\ HasProfile(init, getActiveProfile(init))
                      THEN [id |-> n + 1,
                            value |-> getProfile(init, getActiveProfile(init)).config]
                      ELSE cur]

\* lines 58-61 of Polish.organize, at time n: the config organize goes on with
organizeConfig(fs, n, cur, profileName) ==
  IF SameObject(cur, getDefaultConfig(n))
  THEN loadConfig(fs, n + 1, cur, profileName)
  ELSE [fs |-> fs, config |-> cur]

(***************************************************************************)
(* FileProcessor.processFiles as a state machine                           *)
(***************************************************************************)
VARIABLES
  files,          \* the input list
  options,        \* dryRun, copy, onProgress (supplied or not)
  env,            \* which optional packages load; unzipper is "untried" until
                  \* the first dynamic import of the run
  config,         \* the Config of the run
  fs,             \* the file system
  results,        \* the OrganizationResult being built
  i,              \* the loop variable of processFiles
  pc,             \* "loop", "file" (inside the try of line 51), "done"
  call,           \* the file a pending processFile call is about, or NoCall
  ret,            \* what the innermost finished processFile returned or threw
  stack,          \* the running processArchiveRecursively calls, innermost last
  progressCalls,  \* the arguments of the onProgress calls made so far
  log,            \* history: progress, begin, ok and fail events with their index
  faults,         \* history: the number of failed file-system calls injected
  temps,          \* history: the extraction directories created, in order
  rmFailed        \* history: the extraction directories whose removal failed

vars == <<files, options, env, config, fs, results, i, pc, call, ret, stack,
          progressCalls, log, faults, temps, rmFailed>>

NoCall == [none |-> TRUE]

NoRet == [none |-> TRUE]

Returned(pf) == [ok |-> TRUE, pf |-> pf]

Threw(err) == [ok |-> FALSE, err |-> err]

\* lines 31-40: the result object processFiles starts from
newResults(fileList) ==
  [processed |-> <<>>, failed |-> <<>>,
   summary |-> [total |-> Len(fileList), successful |-> 0, failed |-> 0]]

\* lines 53-54
recordSuccess(res, processed) ==
  [res EXCEPT !.processed = Append(@, processed), !.summary.successful = @ + 1]

\* what lines 56-60 are not: a failure pushed without counting it
recordFailureUncounted(res, file, error) ==
  [res EXCEPT !.failed = Append(@, [file |-> file, error |-> error])]

\* lines 56-60
recordFailure(res, file, error) ==
  [res EXCEPT !.failed = Append(@, [file |-> file, error |-> error]),
              !.summary.failed = @ + 1]

\* what line 48 is not: the 0-based index handed to onProgress
onProgressArgsZero(idx, fileList) == <<idx, Len(fileList), fileList[idx + 1]>>

\* line 48: the arguments of the onProgress call of iteration i (0-based)
onProgressArgs(idx, fileList) == <<idx + 1, Len(fileList), fileList[idx + 1]>>

\* what line 44 is not: a loop that gives up at the first failure
loopNextAbort(idx, fileList, ok) == IF ok THEN idx + 1 ELSE Len(fileList)

\* line 44: the loop goes on with the next index whatever the outcome
loopNext(idx, fileList, ok) == idx + 1

\* what lines 273-280 are not: a cleanup on the success path only
cleanupTempOnSuccess(fsys, tempDir, pending, rmOk) ==
  IF rmOk /\ pending.ok THEN RmRf(fsys, tempDir) ELSE fsys

\* lines 273-280: the finally block; rmOk is false when fs.rm throws, which
\* is caught and logged
cleanupTemp(fsys, tempDir, pending, rmOk) ==
  IF rmOk THEN RmRf(fsys, tempDir) ELSE fsys

\* what lines 213-216 are not: a member's error handed on to the archive
memberOutcomeRethrow(frame, r) ==
  IF r.ok
  THEN [frame EXCEPT !.childResults = Append(@, r.pf),
                     !.memberLog = Append(@, TRUE),
                     !.idx = @ + 1]
  ELSE [frame EXCEPT !.memberLog = Append(@, FALSE),
                     !.idx = @ + 1,
                     !.pending = r,
                     !.step = "cleanup"]

\* lines 213-216: a member's result is kept, a member's error is logged, and
\* the archive goes on either way (the archive's pending outcome stays open)
memberOutcome(frame, r) ==
  [frame EXCEPT !.childResults = IF r.ok THEN Append(@, r.pf) ELSE @,
                !.memberLog = Append(@, r.ok),
                !.idx = @ + 1]

Init ==
  /\ files \in Batches
  /\ options \in [dryRun : BOOLEAN, copy : BOOLEAN, onProgress : BOOLEAN]
  /\ env = [unzipper |-> "untried", pdfParse |-> TRUE, mammoth |-> TRUE]
  /\ config \in Configs
  /\ fs = InitFs
  /\ results = newResults(files)
  /\ i = 0
  /\ pc = "loop"
  /\ call = NoCall
  /\ ret = NoRet
  /\ stack = <<>>
  /\ progressCalls = <<>>
  /\ log = <<>>
  /\ faults = 0
  /\ temps = <<>>
  /\ rmFailed = {}

Top == stack[Len(stack)]

SetTop(frame) == [stack EXCEPT ![Len(stack)] = frame]

Fault(failAt, fired) == failAt = 0 \/ (fired /\ faults < MaxFaults)

\* lines 44-52: the loop test, the progress callback, the call of processFile
BeginIteration ==
  /\ pc = "loop" /\ i < Len(files)
  /\ progressCalls' = IF options.onProgress
                      THEN Append(progressCalls, onProgressArgs(i, files))
                      ELSE progressCalls
  /\ log' = log \o (IF options.onProgress THEN <<[ev |-> "progress", i |-> i + 1]>>
                    ELSE <<>>) \o <<[ev |-> "begin", i |-> i + 1]>>
  /\ call' = files[i + 1]
  /\ pc' = "file"
  /\ UNCHANGED <<files, options, env, config, fs, results, i, ret, stack, faults,
                 temps, rmFailed>>

\* processFile of a file that is not an archive
ProcessFile ==
  /\ call # NoCall /\ call.type # T_archive
  /\ \E existingFolders \in getExistingVaultFolders(fs, config) :
       LET plan == filePlan(fs, config, Now, env, call, existingFolders)
       IN \E failAt \in 0..4 :
            LET r == placePlan(fs, options, plan, failAt)
            IN /\ Fault(failAt, r.fired)
               /\ fs' = r.fs
               /\ ret' = IF r.ok THEN Returned(r.pf) ELSE Threw(r.err)
               /\ faults' = IF failAt = 0 THEN faults ELSE faults + 1
  /\ call' = NoCall
  /\ UNCHANGED <<files, options, env, config, results, i, pc, stack, progressCalls,
                 log, temps, rmFailed>>

\* line 179: processFile of an archive enters processArchiveRecursively, which
\* creates the extraction directory first (outside its try)
ArchiveBegin ==
  /\ call # NoCall /\ call.type = T_archive
  /\ \E failed \in BOOLEAN :
       /\ failed => faults < MaxFaults
       /\ IF failed \/ ~IsDir(fs, <<S_tmp>>)
          THEN /\ ret' = Threw([syscall |-> "mkdtemp", path |-> <<S_tmp>>])
               /\ faults' = IF failed THEN faults + 1 ELSE faults
               /\ UNCHANGED <<fs, stack, temps>>
          ELSE LET tempExtractDir == mkdtempPath(Len(temps) + 1)
               IN /\ fs' = [fs EXCEPT !.dirs = @ \cup {tempExtractDir}]
                  /\ temps' = Append(temps, tempExtractDir)
                  /\ stack' = Append(stack,
                       [file |-> call, tempDir |-> tempExtractDir,
                        extractedFiles |-> <<>>, idx |-> 0, childResults |-> <<>>,
                        memberLog |-> <<>>, step |-> "extract", pending |-> NoRet])
                  /\ UNCHANGED <<ret, faults>>
  /\ call' = NoCall
  /\ UNCHANGED <<files, options, env, config, results, i, pc, progressCalls, log,
                 rmFailed>>

\* lines 185-192: extractArchive, then the choice between the normal path and
\* the member loop
ArchiveExtract ==
  /\ stack # <<>> /\ Top.step = "extract"
  /\ \E loads \in {"loads", "missing"}, failAt \in 0..3 :
       LET r == extractArchive(fs, [env EXCEPT !.unzipper = loads], Top.file,
                               Top.tempDir, failAt)
       IN /\ env.unzipper \in {"untried", loads}
          /\ Fault(failAt, r.fired)
          /\ fs' = r.fs
          /\ faults' = IF failAt = 0 THEN faults ELSE faults + 1
          /\ env' = IF toLowerCase(Top.file.extension) = <<"z","i","p">>
                    THEN [env EXCEPT !.unzipper = loads] ELSE env
          /\ stack' = SetTop([Top EXCEPT
                         !.extractedFiles = r.extractedFiles,
                         !.step = IF Len(r.extractedFiles) = 0 THEN "normal"
                                  ELSE "members"])
  /\ UNCHANGED <<files, options, config, results, i, pc, call, ret,
                 progressCalls, log, temps, rmFailed>>

\* line 189: nothing was extracted, the archive is processed as a normal file
ArchiveFallback ==
  /\ stack # <<>> /\ Top.step = "normal"
  /\ \E existingFolders \in getExistingVaultFolders(fs, config) :
       LET plan == filePlan(fs, config, Now, env, Top.file, existingFolders)
       IN \E failAt \in 0..4 :
            LET r == processFileAsNormal(fs, options, plan, failAt)
            IN /\ Fault(failAt, r.fired)
               /\ fs' = r.fs
               /\ faults' = IF failAt = 0 THEN faults ELSE faults + 1
               /\ stack' = SetTop([Top EXCEPT
                              !.pending = IF r.ok THEN Returned(r.pf) ELSE Threw(r.err),
                              !.step = "cleanup"])
  /\ UNCHANGED <<files, options, env, config, results, i, pc, call, ret,
                 progressCalls, log, temps, rmFailed>>

\* lines 197-212: the next extracted file is stat'ed and handed to processFile;
\* a failing stat is caught like any other error of the member
MemberCall ==
  /\ stack # <<>> /\ Top.step = "members" /\ Top.idx < Len(Top.extractedFiles)
  /\ call = NoCall /\ ret = NoRet
  /\ LET extractedFile == Top.extractedFiles[Top.idx + 1]
     IN IF IsFile(fs, extractedFile)
        THEN /\ call' = memberFileInfo(fs, Now, extractedFile)
             /\ UNCHANGED stack
        ELSE /\ stack' = SetTop(memberOutcome(Top,
                            Threw([syscall |-> "stat", path |-> extractedFile])))
             /\ UNCHANGED call
  /\ UNCHANGED <<files, options, env, config, fs, results, i, pc, ret, progressCalls,
                 log, faults, temps, rmFailed>>

\* lines 212-216: the member's processFile returned or threw
MemberReturn ==
  /\ stack # <<>> /\ Top.step = "members" /\ ret # NoRet
  /\ stack' = SetTop(memberOutcome(Top, ret))
  /\ ret' = NoRet
  /\ UNCHANGED <<files, options, env, config, fs, results, i, pc, call, progressCalls,
                 log, faults, temps, rmFailed>>

\* lines 219-271: all members done, the archive's own summary document
ArchiveSummary ==
  /\ stack # <<>> /\ Top.step = "members" /\ Top.idx = Len(Top.extractedFiles)
  /\ call = NoCall /\ ret = NoRet
  /\ \E existingFolders \in getExistingVaultFolders(fs, config) :
       LET plan == archivePlan(config, Now, Top.file, Top.childResults, existingFolders)
       IN \E failAt \in 0..4 :
            LET r == placePlan(fs, options, plan, failAt)
            IN /\ Fault(failAt, r.fired)
               /\ fs' = r.fs
               /\ faults' = IF failAt = 0 THEN faults ELSE faults + 1
               /\ stack' = SetTop([Top EXCEPT
                              !.pending = IF r.ok THEN Returned(r.pf) ELSE Threw(r.err),
                              !.step = "cleanup"])
  /\ UNCHANGED <<files, options, env, config, results, i, pc, call, ret,
                 progressCalls, log, temps, rmFailed>>

\* lines 273-280: the finally block, then the return or rethrow to the caller
ArchiveCleanup ==
  /\ stack # <<>> /\ Top.step = "cleanup"
  /\ \E rmOk \in BOOLEAN :
       /\ ~rmOk => faults < MaxFaults
       /\ fs' = cleanupTemp(fs, Top.tempDir, Top.pending, rmOk)
       /\ faults' = IF rmOk THEN faults ELSE faults + 1
       /\ rmFailed' = IF rmOk THEN rmFailed ELSE rmFailed \cup {Top.tempDir}
  /\ ret' = Top.pending
  /\ stack' = SubSeq(stack, 1, Len(stack) - 1)
  /\ UNCHANGED <<files, options, env, config, results, i, pc, call, progressCalls,
                 log, temps>>

\* lines 52-61: the outcome of the file is recorded and the loop advances
RecordOutcome ==
  /\ pc = "file" /\ stack = <<>> /\ ret # NoRet
  /\ results' = IF ret.ok THEN recordSuccess(results, ret.pf)
                ELSE recordFailure(results, files[i + 1], ret.err)
  /\ log' = Append(log, [ev |-> IF ret.ok THEN "ok" ELSE "fail", i |-> i + 1])
  /\ i' = loopNext(i, files, ret.ok)
  /\ ret' = NoRet
  /\ pc' = "loop"
  /\ UNCHANGED <<files, options, env, config, fs, call, stack, progressCalls, faults,
                 temps, rmFailed>>

\* lines 44, 64-65: the loop ends and processFiles returns
Return ==
  /\ pc = "loop" /\ i >= Len(files)
  /\ pc' = "done"
  /\ UNCHANGED <<files, options, env, config, fs, results, i, call, ret, stack,
                 progressCalls, log, faults, temps, rmFailed>>

Next ==
  \/ BeginIteration
  \/ ProcessFile
  \/ ArchiveBegin
  \/ ArchiveExtract
  \/ ArchiveFallback
  \/ MemberCall
  \/ MemberReturn
  \/ ArchiveSummary
  \/ ArchiveCleanup
  \/ RecordOutcome
  \/ Return

Spec == Init /\ [][Next]_vars

(***************************************************************************)
(* Properties of processFiles                                              *)
(***************************************************************************)
\* the input position of a file of the batch
Pos(f) == CHOOSE k \in 1..Len(files) : files[k] = f

\* how many entries of processed and of failed are about file f
EntriesOf(f) ==
  Cardinality({j \in 1..Len(results.processed) : results.processed[j].original = f})
  + Cardinality({j \in 1..Len(results.failed) : results.failed[j].file = f})

\* the begin, ok and fail events of the run, in order
Events == SelectSeq(log, LAMBDA e : e.ev # "progress")

\* C1: the counters of the summary agree with the lengths of the two lists at
\* every moment, every input position already handled has exactly one entry in
\* exactly one of the lists, no other position has any, and when processFiles
\* returns successful + failed = total = files.length.
C1_Accounting ==
  /\ results.summary.total = Len(files)
  /\ Len(results.processed) = results.summary.successful
  /\ Len(results.failed) = results.summary.failed
  /\ results.summary.successful + results.summary.failed = i
  /\ \A k \in 1..Len(files) : EntriesOf(files[k]) = IF k <= i THEN 1 ELSE 0
  /\ pc = "done" =>
       results.summary.successful + results.summary.failed = results.summary.total

\* a batch of two returned with one success and one failure
C1_Witness ==
  /\ pc = "done" /\ Len(files) = 2
  /\ results.summary.successful = 1 /\ results.summary.failed = 1

\* C2: the files are begun in input order, each once, each outcome is
\* recorded before the next file begins, a failure does not stop the files
\* after it, and processed and failed each keep input order.
C2_InOrderOnce ==
  /\ \A k \in 1..Len(Events) :
       /\ Events[k].i = (k + 1) \div 2
       /\ (k % 2 = 1) => Events[k].ev = "begin"
       /\ (k % 2 = 0) => Events[k].ev \in {"ok", "fail"}
       /\ (k % 2 = 0 /\ Events[k].ev = "fail") =>
            \E j \in 1..Len(results.failed) : results.failed[j].file = files[k \div 2]
       /\ (k % 2 = 0 /\ Events[k].ev = "ok") =>
            \E j \in 1..Len(results.processed) :
               results.processed[j].original = files[k \div 2]
  /\ pc = "done" => Len(Events) = 2 * Len(files)
  /\ \A a, b \in 1..Len(results.processed) :
       a < b => Pos(results.processed[a].original) < Pos(results.processed[b].original)
  /\ \A a, b \in 1..Len(results.failed) :
       a < b => Pos(results.failed[a].file) < Pos(results.failed[b].file)

\* the first file of two failed and the second was processed all the same
C2_Witness ==
  /\ pc = "done" /\ Len(files) = 2
  /\ Len(Events) = 4 /\ Events[2].ev = "fail" /\ Events[4].ev = "ok"

\* the input positions whose source path does not exist when the run starts
MissingSources == {k \in 1..Len(files) : ~IsFile(InitFs, files[k].path)}

\* C3: a batch of two in which exactly one source path does not exist (and
\* nothing else goes wrong) ends with total 2, successful 1, failed 1, the
\* failed entry being the missing file.
C3_MissingSourceFails ==
  (pc = "done" /\ Len(files) = 2 /\ Cardinality(MissingSources) = 1 /\ faults = 0) =>
     /\ results.summary.total = 2
     /\ results.summary.successful = 1
     /\ results.summary.failed = 1
     /\ Len(results.failed) = 1
     /\ \A k \in MissingSources : results.failed[1].file.name = files[k].name

\* the part of a file system outside the extraction directories
OutsideTemp(fsys) ==
  [dirs  |-> {d \in fsys.dirs : ~(IsPrefix(<<S_tmp>>, d) /\ d # <<S_tmp>>)},
   files |-> [q \in {f \in DOMAIN fsys.files : ~IsPrefix(<<S_tmp>>, f)} |->
                fsys.files[q]]]

\* C4, as stated: with dryRun no step of processFiles changes the file system.
C4_DryRunNoMutation == [][options.dryRun => fs' = fs]_vars

\* C4, amended: with dryRun the file system outside the temporary extraction
\* directories stays what it was (nothing appears under the vault or the
\* originals root, every source file stays in place with its content).
C4_DryRunKeepsTrees == options.dryRun => OutsideTemp(fs) = InitFs

\* a dry run of an archive returned: its members were extracted and processed
C4_Witness ==
  /\ options.dryRun /\ pc = "done" /\ temps # <<>>
  /\ results.summary.successful = 1
  /\ "extractedFiles" \in DOMAIN results.processed[1].frontmatter
  /\ results.processed[1].frontmatter.extractedFiles > 0

\* what a dry run of the batch returns for a file that is not an archive: no
\* step of a dry run changes the vault, so each file sees the initial one
DryRunResult(file) == filePlan(InitFs, config, Now, env, file, <<>>)

\* C5: in a run in which no file-system call failed for outside reasons,
\* every ProcessedFile of a file that is not an archive has the markdownPath,
\* originalNewPath, tags, category and rendered document of the dry run of
\* the same batch.
C5_SameAsDryRun ==
  faults = 0 =>
  \A j \in 1..Len(results.processed) :
     LET pf == results.processed[j]
     IN pf.original.type # T_archive =>
          LET dry == DryRunResult(pf.original)
          IN /\ pf.markdownPath = dry.markdownPath
             /\ pf.originalNewPath = dry.originalNewPath
             /\ pf.tags = dry.tags
             /\ pf.category = dry.category
             /\ pf.content.body = dry.content.body

\* C6: when processFile has returned in a run that is not a dry run, the
\* markdown document is at markdownPath, both parent directories exist, the
\* file is at originalNewPath, and the source is still there with the same
\* content (copy) or gone (move); a top-level file keeps the content it had.
C6_Placed ==
  (ret # NoRet /\ ret.ok /\ ~options.dryRun) =>
     LET pf == ret.pf
     IN /\ IsFile(fs, pf.markdownPath)
        /\ fs.files[pf.markdownPath] = [md |-> pf.content]
        /\ IsDir(fs, Dirname(pf.markdownPath))
        /\ IsDir(fs, Dirname(pf.originalNewPath))
        /\ IsFile(fs, pf.originalNewPath)
        /\ options.copy => /\ IsFile(fs, pf.original.path)
                           /\ fs.files[pf.original.path] = fs.files[pf.originalNewPath]
        /\ ~options.copy => ~IsFile(fs, pf.original.path)
        /\ stack = <<>> => fs.files[pf.originalNewPath] = InitFs.files[pf.original.path]

\* a top-level file was moved
C6_Witness ==
  /\ ret # NoRet /\ ret.ok /\ ~options.dryRun /\ ~options.copy /\ stack = <<>>
  /\ ret.pf.original = F_a1

\* C7: in a run that is not a dry run, the content every input file had is
\* at every moment either at its source path or somewhere under the originals
\* root.
C7_NeverDestroyed ==
  ~options.dryRun =>
     \A k \in 1..Len(files) :
        IsFile(InitFs, files[k].path) =>
          \E q \in DOMAIN fs.files :
             /\ fs.files[q] = InitFs.files[files[k].path]
             /\ q = files[k].path \/ IsPrefix(config.originalsPath, q)

\* C8: with an onProgress callback, the calls made so far are (1, n, files[1]),
\* (2, n, files[2]), ... in this order, one for every file begun; each call
\* comes right after the previous file's outcome was recorded and right before
\* the file's processing begins; at the end every file had its call, the
\* files that failed included.
C8_Progress ==
  options.onProgress =>
     /\ \A k \in 1..Len(progressCalls) : progressCalls[k] = <<k, Len(files), files[k]>>
     /\ Len(progressCalls) = IF pc = "file" THEN i + 1 ELSE i
     /\ pc = "done" => Len(progressCalls) = Len(files)
     /\ \A k \in 1..Len(log) :
          /\ log[k].ev = "progress" =>
               /\ k < Len(log)
               /\ log[k + 1] = [ev |-> "begin", i |-> log[k].i]
               /\ k > 1 => log[k - 1].ev \in {"ok", "fail"} /\ log[k - 1].i = log[k].i - 1
               /\ k = 1 => log[k].i = 1
          /\ log[k].ev = "begin" =>
               k > 1 /\ log[k - 1] = [ev |-> "progress", i |-> log[k].i]

\* a batch of two, the first of which failed, returned with both calls made
C8_Witness ==
  /\ options.onProgress /\ pc = "done" /\ Len(files) = 2
  /\ Len(progressCalls) = 2
  /\ \E j \in 1..Len(results.failed) : results.failed[j].file = files[1]

\* the extraction directories of the archives being processed right now
OpenTemps == {stack[j].tempDir : j \in 1..Len(stack)}

Succeeded(frame) ==
  Cardinality({k \in 1..Len(frame.memberLog) : frame.memberLog[k]})

\* C10: in every running archive with extracted entries, the members handled
\* so far are the first idx entries, each handled once, and the child results
\* are those that succeeded; when the archive's own outcome is known every
\* entry was handled, a returned summary has extractedFiles = the number of
\* successes, and a thrown error is not about a path inside the extraction
\* directory; no entry of the batch-level failed list is about an extracted
\* file.
C10_Members ==
  /\ \A n \in 1..Len(stack) :
       LET frame == stack[n]
       IN Len(frame.extractedFiles) >= 1 =>
            /\ Len(frame.memberLog) = frame.idx
            /\ frame.idx <= Len(frame.extractedFiles)
            /\ Len(frame.childResults) = Succeeded(frame)
            /\ \A c \in 1..Len(frame.childResults) :
                 \E k \in 1..Len(frame.extractedFiles) :
                    frame.childResults[c].original.path = frame.extractedFiles[k]
            /\ frame.step = "cleanup" =>
                 /\ frame.idx = Len(frame.extractedFiles)
                 /\ frame.pending.ok =>
                      frame.pending.pf.frontmatter.extractedFiles = Succeeded(frame)
                 /\ ~frame.pending.ok =>
                      ~IsPrefix(frame.tempDir, frame.pending.err.path)
  /\ \A j \in 1..Len(results.failed) :
       /\ \E k \in 1..Len(files) : results.failed[j].file = files[k]
       /\ \A k \in 1..Len(temps) : ~IsPrefix(temps[k], results.failed[j].error.path)

\* an archive of two entries, the first of which failed, has its summary
C10_Witness ==
  /\ stack # <<>> /\ Len(stack) = 1
  /\ Top.step = "cleanup" /\ Top.pending.ok
  /\ Top.memberLog = <<FALSE, TRUE>>
  /\ Top.pending.pf.frontmatter.extractedFiles = 1

(***************************************************************************)
(* extractArchive on hostile entry paths                                   *)
(***************************************************************************)
\* most '/'-separated pieces of a generated entry path
MaxSegs == 3

\* the pieces entry paths are built from: empty (so that slashes lead or
\* repeat), dot runs of length 1 to 4, a name, a name behind two dots
PathPieces ==
  {<<>>, <<".">>, <<".", ".">>, <<".", ".", ".">>, <<".", ".", ".", ".">>,
   <<"e">>, <<".", ".", "e">>}

RECURSIVE JoinSlash(_)
JoinSlash(segs) ==
  IF Len(segs) = 0 THEN <<>>
  ELSE IF Len(segs) = 1 THEN segs[1]
       ELSE segs[1] \o <<"/">> \o JoinSlash(Tail(segs))

EntryPaths == {JoinSlash(q) : q \in UNION {[1..n -> PathPieces] : n \in 1..MaxSegs}}

\* entry.type of unzipper: absent, 'File' or 'Directory'
EntryTypes == {"", "File", "Directory"}

\* the file system when processArchiveRecursively has made its extraction
\* directory for src1/p.zip, an archive with one entry
ZipFs(entryPath, type) ==
  [dirs  |-> InitFs.dirs \cup {mkdtempPath(1)},
   files |-> (F_zip.path :> [zip |-> << [path |-> entryPath, type |-> type,
                                          data |-> Raw("c6")] >>])]

\* processFiles([p.zip]) at the call of extractArchive (line 185)
InitZip ==
  /\ files = <<F_zip>>
  /\ options = [dryRun |-> TRUE, copy |-> FALSE, onProgress |-> FALSE]
  /\ env = [unzipper |-> "untried", pdfParse |-> TRUE, mammoth |-> TRUE]
  /\ config = TestConfig
  /\ \E p \in EntryPaths, t \in EntryTypes : fs = ZipFs(p, t)
  /\ results = newResults(files)
  /\ i = 0
  /\ pc = "file"
  /\ call = NoCall
  /\ ret = NoRet
  /\ stack = << [file |-> F_zip, tempDir |-> mkdtempPath(1),
                 extractedFiles |-> <<>>, idx |-> 0, childResults |-> <<>>,
                 memberLog |-> <<>>, step |-> "extract", pending |-> NoRet] >>
  /\ progressCalls = <<>>
  /\ log = <<[ev |-> "begin", i |-> 1]>>
  /\ faults = 0
  /\ temps = <<mkdtempPath(1)>>
  /\ rmFailed = {}

NextZip == ArchiveExtract

SpecZip == InitZip /\ [][NextZip]_vars

\* the entry of the archive being extracted
TheEntry == fs.files[F_zip.path].zip[1]

\* C11: whatever the entry path, the path it is joined to stays within the
\* extraction directory; every file and directory the extraction creates is
\* inside that directory; every path reported as extracted is a file inside
\* it; a directory entry leaves the file system as it was.
C11_ExtractInside ==
  LET dir == Top.tempDir
  IN /\ IsPrefix(dir, safePath(dir, TheEntry.path))
     /\ \A q \in DOMAIN fs.files :
          q # F_zip.path => IsPrefix(dir, q) /\ Len(q) > Len(dir)
     /\ \A d \in fs.dirs \ InitFs.dirs : IsPrefix(dir, d)
     /\ \A k \in 1..Len(Top.extractedFiles) :
          /\ IsPrefix(dir, Top.extractedFiles[k])
          /\ IsFile(fs, Top.extractedFiles[k])
     /\ TheEntry.type = "Directory" =>
          /\ DOMAIN fs.files = {F_zip.path}
          /\ fs.dirs = InitFs.dirs \cup {dir}
          /\ Top.extractedFiles = <<>>

\* an entry with a leading slash and a '..' was extracted
C11_Witness ==
  /\ Top.step = "members"
  /\ TheEntry.type = "File"
  /\ TheEntry.path[1] = "/"
  /\ includes(TheEntry.path, <<".", ".">>)

(***************************************************************************)
(* Tags: suggestTags and the maxTags limit of processFile                  *)
(***************************************************************************)
\* most words in the stem of a generated file name
MaxWords == 3

\* largest tagging.maxTags tried
MaxTagLimit == 5

\* a word of 3 and a word of 4 characters
NameWords == {<<"b", "i", "g">>, <<"D", "a", "t", "a">>}

NameSeps == {"-", ".", "_", " "}

RECURSIVE Stems(_)
\* the stems of n words
Stems(n) ==
  IF n = 1 THEN NameWords
  ELSE {st \o <<c>> \o w : st \in Stems(n - 1), c \in NameSeps, w \in NameWords}

\* an extension of 3 and one of 4 characters, each with a month of modification
TagExts == {[ext |-> S_txt, month |-> 3], [ext |-> <<"h", "t", "m", "l">>, month |-> 12]}

\* the FileInfo of a file named stem.ext
TagFile(stem, x) ==
  [path |-> <<S_src1, stem \o <<".">> \o x.ext>>, name |-> stem \o <<".">> \o x.ext,
   extension |-> x.ext, size |-> 1024, mYear |-> <<"2", "0", "2", "4">>,
   mMonth |-> x.month, type |-> determineFileType(x.ext)]

TagFiles == {TagFile(st, x) : st \in UNION {Stems(n) : n \in 1..MaxWords}, x \in TagExts}

\* processFiles([f]) at the call of processFile(f), in a dry run
InitTags ==
  /\ \E f \in TagFiles : files = <<f>> /\ call = f
  /\ options = [dryRun |-> TRUE, copy |-> FALSE, onProgress |-> FALSE]
  /\ env = [unzipper |-> "untried", pdfParse |-> TRUE, mammoth |-> TRUE]
  /\ \E m \in 0..MaxTagLimit : config = [TestConfig EXCEPT !.maxTags = m]
  /\ fs = InitFs
  /\ results = newResults(files)
  /\ i = 0
  /\ pc = "file"
  /\ ret = NoRet
  /\ stack = <<>>
  /\ progressCalls = <<>>
  /\ log = <<[ev |-> "begin", i |-> 1]>>
  /\ faults = 0
  /\ temps = <<>>
  /\ rmFailed = {}

NextTags == ProcessFile

SpecTags == InitTags /\ [][NextTags]_vars

\* the place of candidate j among the candidates c when they are ordered by
\* descending confidence, earlier candidates first among equals
Rank(c, j) ==
  1 + Cardinality({l \in 1..Len(c) :
                     \/ c[l].confidence > c[j].confidence
                     \/ c[l].confidence = c[j].confidence /\ l < j})

\* C12: the tags of a processed file are min(maxTags, number of candidates)
\* many, the candidate of rank k being the k-th tag; with maxTags = 5 and more
\* than 5 candidates they are type, format, date and the first two topic tags.
C12_TopTags ==
  ret # NoRet =>
    LET c == suggestTags(files[1])
        t == ret.pf.tags
        n == IF config.maxTags < Len(c) THEN config.maxTags ELSE Len(c)
    IN /\ Len(t) = n
       /\ \A j \in 1..Len(c) : Rank(c, j) <= n => t[Rank(c, j)] = c[j].tag
       /\ (config.maxTags = 5 /\ Len(c) > 5) =>
            /\ t = <<c[1].tag, c[2].tag, c[3].tag, c[4].tag, c[5].tag>>
            /\ startsWith(t[1], <<"t", "y", "p", "e", "/">>)
            /\ startsWith(t[2], <<"f", "o", "r", "m", "a", "t", "/">>)
            /\ startsWith(t[3], <<"d", "a", "t", "e", "/">>)
            /\ c[4].source = "filename" /\ c[5].source = "filename"

\* a file with more than 5 candidates was processed with maxTags = 5
C12_Witness ==
  /\ ret # NoRet /\ config.maxTags = 5
  /\ Len(suggestTags(files[1])) > 5
  /\ Len(ret.pf.tags) = 5

\* the characters suggestTags breaks a name at
TokenSeps == {".", "_", "-", " "}

\* the positions of s where a token starts
TokenStarts(s) ==
  {p \in 1..Len(s) : s[p] \notin TokenSeps /\ (p = 1 \/ s[p - 1] \in TokenSeps)}

\* the position where the token starting at p ends
TokenEnd(s, p) ==
  CHOOSE q \in p..Len(s) :
    /\ \A r \in p..q : s[r] \notin TokenSeps
    /\ q = Len(s) \/ s[q + 1] \in TokenSeps

\* the tokens of s longer than 3 characters, in their order in s
LongTokens(s) ==
  LET starts == {p \in TokenStarts(s) : TokenEnd(s, p) - p + 1 > 3}
      nth(k) == CHOOSE p \in starts : Cardinality({q \in starts : q < p}) = k - 1
  IN [k \in 1..Cardinality(starts) |-> SubSeq(s, nth(k), TokenEnd(s, nth(k)))]

\* the candidates expected for a file whose topic tokens are taken from s
ExpectedTags(file, s) ==
  << [tag |-> <<"t", "y", "p", "e", "/">> \o file.type, confidence |-> 10,
      source |-> "type"],
     [tag |-> <<"f", "o", "r", "m", "a", "t", "/">> \o file.extension,
      confidence |-> 10, source |-> "type"],
     [tag |-> <<"d", "a", "t", "e", "/">> \o file.mYear \o <<"/">> \o
              (IF file.mMonth < 10 THEN <<"0">> ELSE <<>>) \o
              (IF file.mMonth >= 10 THEN <<"1">> ELSE <<>>) \o
              <<DigitChars[(file.mMonth % 10) + 1]>>,
      confidence |-> 10, source |-> "context"] >>
  \o [k \in 1..Len(LongTokens(s)) |->
        [tag |-> <<"t", "o", "p", "i", "c", "/">> \o LongTokens(s)[k],
         confidence |-> 7, source |-> "filename"]]

\* C13, as stated: the candidates are type, format, date and one topic tag
\* per token longer than 3 characters of the lowercased file name without its
\* extension.
C13_TopicsFromStem ==
  suggestTags(files[1]) = ExpectedTags(files[1], toLowerCase(ParseName(files[1].name)))

\* C13, amended: the same, the tokens being those of the whole lowercased
\* file name, extension included.
C13_TopicsFromName ==
  suggestTags(files[1]) = ExpectedTags(files[1], toLowerCase(files[1].name))

\* a processed file whose name has a word of 3, a word of 4 and an extension
\* of 4 characters
C13_Witness ==
  /\ ret # NoRet
  /\ files[1].name = <<"b", "i", "g", "-", "D", "a", "t", "a", ".", "h", "t", "m", "l">>
  /\ Len(suggestTags(files[1])) = 5

(***************************************************************************)
(* ClaudeService.suggestCategory on its own                                *)
(***************************************************************************)
\* longest list of existing folders tried
MaxFolders == 2

FileTypes == {T_document, T_image, T_code, T_data, T_archive, T_media, T_unknown}

\* folder names; two of them occur in 'project-report.txt', one inside the
\* other's match, one nowhere
FolderNames ==
  {<<"P", "r", "o", "j", "e", "c", "t">>, <<"R", "E", "P", "O", "R", "T">>,
   <<"t", "-", "r">>, <<"A", "r", "c", "h", "i", "v", "e">>}

FolderLists ==
  {l \in UNION {[1..n -> FolderNames] : n \in 0..MaxFolders} :
     \A j, k \in DOMAIN l : l[j] = l[k] => j = k}

CatNames ==
  {<<"p", "r", "o", "j", "e", "c", "t", "-", "r", "e", "p", "o", "r", "t", ".", "t", "x", "t">>,
   <<"R", "e", "p", "o", "r", "t", "_", "P", "R", "O", "J", "E", "C", "T", ".", "t", "x", "t">>,
   <<"f", "i", "l", "e", ".", "t", "x", "t">>}

CatFiles ==
  {[FileInfoOf(S_src1, n, S_txt, T_document) EXCEPT !.type = t] :
     n \in CatNames, t \in FileTypes}

\* a ClaudeService and a file to ask it about
InitCat ==
  /\ \E f \in CatFiles : files = <<f>> /\ call = f
  /\ options = [dryRun |-> TRUE, copy |-> FALSE, onProgress |-> FALSE]
  /\ env = [unzipper |-> "untried", pdfParse |-> TRUE, mammoth |-> TRUE]
  /\ config = TestConfig
  /\ fs = InitFs
  /\ results = newResults(files)
  /\ i = 0
  /\ pc = "file"
  /\ ret = NoRet
  /\ stack = <<>>
  /\ progressCalls = <<>>
  /\ log = <<>>
  /\ faults = 0
  /\ temps = <<>>
  /\ rmFailed = {}

\* claudeService.suggestCategory(call, existingFolders); the arguments are
\* kept in log
SuggestCategoryCall ==
  /\ call # NoCall
  /\ \E existingFolders \in FolderLists :
       /\ ret' = Returned(CategorySuggestion(call, existingFolders))
       /\ log' = <<[ev |-> "suggestCategory", file |-> call,
                    existingFolders |-> existingFolders]>>
  /\ call' = NoCall
  /\ UNCHANGED <<files, options, env, config, fs, results, i, pc, stack,
                 progressCalls, faults, temps, rmFailed>>

NextCat == SuggestCategoryCall

SpecCat == InitCat /\ [][NextCat]_vars

\* the FileType values with a capital first letter
TypeTitle(t) ==
  CASE t = T_document -> <<"D", "o", "c", "u", "m", "e", "n", "t">>
    [] t = T_image    -> <<"I", "m", "a", "g", "e">>
    [] t = T_code     -> <<"C", "o", "d", "e">>
    [] t = T_data     -> <<"D", "a", "t", "a">>
    [] t = T_archive  -> <<"A", "r", "c", "h", "i", "v", "e">>
    [] t = T_media    -> <<"M", "e", "d", "i", "a">>
    [] t = T_unknown  -> <<"U", "n", "k", "n", "o", "w", "n">>

\* a and b are the same text up to the case of their letters
SameFolded(a, b) ==
  /\ Len(a) = Len(b)
  /\ \A k \in 1..Len(a) : LowerChar(a[k]) = LowerChar(b[k])

\* folder occurs in name, case-insensitively
OccursIn(folder, name) ==
  \E p \in 1..(Len(name) - Len(folder) + 1) :
    SameFolded(SubSeq(name, p, p + Len(folder) - 1), folder)

TypeFolder(cfg, t) ==
  IF t = T_document THEN cfg.documents
  ELSE IF t \in {T_image, T_media} THEN cfg.media
  ELSE IF t = T_code THEN cfg.code
  ELSE cfg.references

\* C15: in a run in which no file-system call failed for outside reasons, the
\* markdownPath of every processed file is <vault>/<folder>/<name>, the folder
\* being the one configured for the file's type, whatever folders the vault
\* holds.
C15_FolderByType ==
  faults = 0 =>
  \A j \in 1..Len(results.processed) :
     LET pf == results.processed[j]
         n  == Len(config.vaultPath)
     IN /\ IsPrefix(config.vaultPath, pf.markdownPath)
        /\ Len(pf.markdownPath) = n + 2
        /\ pf.markdownPath[n + 1] = TypeFolder(config, pf.original.type)

(***************************************************************************)
(* The organized-original path under every originals configuration         *)
(***************************************************************************)
OrganizationStyles == {"type-based", "date-based", "project-based"}

PathConfigs ==
  {[TestConfig EXCEPT !.organizationStyle = st, !.createYearFolders = y] :
     st \in OrganizationStyles, y \in BOOLEAN}

\* script.py of the organization-style test
F_script ==
  FileInfoOf(S_src1, <<"s", "c", "r", "i", "p", "t", ".", "p", "y">>, <<"p", "y">>, T_code)

\* a file modified in the year of the run
F_new ==
  [FileInfoOf(S_src1, <<"n", "e", "w", ".", "t", "x", "t">>, S_txt, T_document)
     EXCEPT !.mYear = Now.year]

PathFiles == {F_a1, F_docs, F_script, F_new}

\* the sources on disk; the vault either absent or holding a Documents folder
PathFs(withVault) ==
  [dirs  |-> InitFs.dirs \cup
             (IF withVault THEN {<<S_vault>>, <<S_vault, TestConfig.documents>>}
              ELSE {}),
   files |-> InitFs.files @@ (F_script.path :> Raw("c7")) @@ (F_new.path :> Raw("c8"))]

\* processFiles([f]) at the call of processFile(f)
InitPaths ==
  /\ \E f \in PathFiles : files = <<f>> /\ call = f
  /\ \E d, c \in BOOLEAN : options = [dryRun |-> d, copy |-> c, onProgress |-> FALSE]
  /\ env = [unzipper |-> "untried", pdfParse |-> TRUE, mammoth |-> TRUE]
  /\ config \in PathConfigs
  /\ \E v \in BOOLEAN : fs = PathFs(v)
  /\ results = newResults(files)
  /\ i = 0
  /\ pc = "file"
  /\ ret = NoRet
  /\ stack = <<>>
  /\ progressCalls = <<>>
  /\ log = <<[ev |-> "begin", i |-> 1]>>
  /\ faults = 0
  /\ temps = <<>>
  /\ rmFailed = {}

NextPaths == ProcessFile

SpecPaths == InitPaths /\ [][NextPaths]_vars

\* a year: four digits
IsYearSegment(seg) ==
  /\ Len(seg) = 4
  /\ \A k \in 1..4 : \E d \in 1..10 : seg[k] = DigitChars[d]

\* the segments the organization style contributes
StyleSegments(cfg, now, category) ==
  CASE cfg.organizationStyle = "type-based" -> <<category>>
    [] cfg.organizationStyle = "date-based" ->
         <<now.year, IF now.month < 10 THEN <<"0", DigitChars[now.month + 1]>>
                     ELSE <<"1", DigitChars[now.month - 9]>> >>
    [] OTHER -> <<>>

\* C16: originalNewPath is the originals root, one year segment exactly when
\* createYearFolders is on, the segments of the style (the category for
\* type-based, year and month for date-based, none for project-based), and the
\* file name unchanged.
C16_OriginalPath ==
  (ret # NoRet /\ ret.ok) =>
    LET pf    == ret.pf
        p     == pf.originalNewPath
        n     == Len(config.originalsPath)
        y     == IF config.createYearFolders THEN 1 ELSE 0
        style == StyleSegments(config, Now, pf.category)
    IN /\ IsPrefix(config.originalsPath, p)
       /\ Len(p) = n + y + Len(style) + 1
       /\ y = 1 => IsYearSegment(p[n + 1])
       /\ SubSeq(p, n + y + 1, n + y + Len(style)) = style
       /\ p[Len(p)] = pf.original.name
       /\ config.organizationStyle = "project-based" =>
            p = SubSeq(p, 1, n + y) \o <<pf.original.name>>

\* a file was processed under project-based organization with year folders
C16_Witness ==
  /\ ret # NoRet /\ ret.ok
  /\ config.organizationStyle = "project-based" /\ config.createYearFolders
  /\ Len(ret.pf.originalNewPath) = Len(config.originalsPath) + 2

\* C17: under type-based organization originalNewPath is
\* <originals>/<year of the run>/<category>/<name> with year folders and
\* <originals>/<category>/<name> without, whatever the file's modification
\* date.
C17_CurrentYear ==
  (ret # NoRet /\ ret.ok /\ config.organizationStyle = "type-based") =>
    ret.pf.originalNewPath =
       config.originalsPath \o
       (IF config.createYearFolders THEN <<Now.year>> ELSE <<>>) \o
       <<ret.pf.category, ret.pf.original.name>>

(***************************************************************************)
(* ContentExtractor.extract on files of every type, size and content       *)
(***************************************************************************)
\* most control characters, most tabs and line breaks, most other characters
\* in a generated content
MaxCtrl == 2

MaxBreaks == 1

MaxPlain == 18

\* codes the control-character pattern matches: both ends of its three ranges
CtrlCodes == <<0, 8, 11, 12, 14, 31>>

\* tab, line feed, carriage return
BreakCodes == <<9, 10, 13>>

\* space, 'A', '~' and a character beyond ASCII
PlainCodes == <<32, 65, 126, 233>>

\* a content of c control characters, b tabs and line breaks and p other
\* characters
Content(c, b, p) ==
  Text([k \in 1..c |-> CtrlCodes[((k - 1) % Len(CtrlCodes)) + 1]] \o
       [k \in 1..p |-> PlainCodes[((k - 1) % Len(PlainCodes)) + 1]] \o
       [k \in 1..b |-> BreakCodes[((k - 1) % Len(BreakCodes)) + 1]])

Contents == {Content(c, b, p) : c \in 0..MaxCtrl, b \in 0..MaxBreaks, p \in 0..MaxPlain}

\* a type with an extension of that type
TypedExts ==
  {[type |-> T_document, ext |-> S_txt],
   [type |-> T_document, ext |-> <<"p", "d", "f">>],
   [type |-> T_document, ext |-> <<"d", "o", "c", "x">>],
   [type |-> T_document, ext |-> <<"h", "t", "m", "l">>],
   [type |-> T_document, ext |-> <<"o", "d", "t">>],
   [type |-> T_code, ext |-> <<"p", "y">>],
   [type |-> T_data, ext |-> <<"c", "s", "v">>],
   [type |-> T_image, ext |-> <<"p", "n", "g">>],
   [type |-> T_media, ext |-> <<"m", "p", "3">>],
   [type |-> T_archive, ext |-> S_zip],
   [type |-> T_unknown, ext |-> <<"b", "i", "n">>]}

\* sizes at and just above the two ceilings, and the size of the test files
Sizes == {1024, MAX_FILE_SIZE, MAX_FILE_SIZE + 1, MEDIA_MAX_SIZE, MEDIA_MAX_SIZE + 1}

ExtractFile(x, size) ==
  [FileInfoOf(S_src1, <<"f", ".">> \o x.ext, x.ext, x.type) EXCEPT !.size = size]

\* what is at the file's path: nothing, a directory, or a file
DiskStates(file) ==
  {[dirs |-> {<<S_tmp>>, <<S_src1>>}, files |-> <<>>],
   [dirs |-> {<<S_tmp>>, <<S_src1>>, file.path}, files |-> <<>>]}
  \cup {[dirs |-> {<<S_tmp>>, <<S_src1>>}, files |-> (file.path :> c)] : c \in Contents}

\* a ContentExtractor and a FileProcessor in a dry run, about to be asked
\* about one file
InitExtract ==
  /\ \E x \in TypedExts, size \in Sizes :
       /\ files = <<ExtractFile(x, size)>>
       /\ call = ExtractFile(x, size)
       /\ fs \in DiskStates(ExtractFile(x, size))
  /\ options = [dryRun |-> TRUE, copy |-> FALSE, onProgress |-> FALSE]
  /\ \E libs \in BOOLEAN : env = [unzipper |-> "untried", pdfParse |-> libs, mammoth |-> libs]
  /\ config = TestConfig
  /\ results = newResults(files)
  /\ i = 0
  /\ pc = "file"
  /\ ret = NoRet
  /\ stack = <<>>
  /\ progressCalls = <<>>
  /\ log = <<>>
  /\ faults = 0
  /\ temps = <<>>
  /\ rmFailed = {}

\* contentExtractor.extract(call); the argument and the reads are kept in log
ExtractCall ==
  /\ call # NoCall
  /\ ret' = Returned(catchAll(IF tooLarge(call) THEN Null
                              ELSE extractByType(fs, env, call)))
  /\ log' = <<[ev |-> "extract", file |-> call, reads |-> extractReads(fs, env, call)]>>
  /\ call' = NoCall
  /\ UNCHANGED <<files, options, env, config, fs, results, i, pc, stack,
                 progressCalls, faults, temps, rmFailed>>

NextExtract == ExtractCall \/ ProcessFile

SpecExtract == InitExtract /\ [][NextExtract]_vars

\* extract(file) has returned
Extracted == ret # NoRet /\ log # <<>> /\ log[1].ev = "extract"

\* 10 MiB and 50 MiB
Ceiling(type) ==
  IF type \in {T_image, T_media} THEN 50 * 1024 * 1024 ELSE 10 * 1024 * 1024

\* C18: extract returns null and reads nothing when file.size is above the
\* ceiling of the file's type (10 MiB, 50 MiB for Image and Media); a file of
\* exactly the ceiling goes through the size check: its extraction is the one
\* of a small file.
C18_SizeCeiling ==
  Extracted =>
    LET file == log[1].file
    IN /\ file.size > Ceiling(file.type) => ret.pf = Null /\ log[1].reads = <<>>
       /\ (file.size = Ceiling(file.type) /\ IsFile(fs, file.path)
             /\ file.type \in {T_code, T_data}) =>
            ret.pf = [text |-> fs.files[file.path]] /\ log[1].reads = <<file.path>>
       /\ (file.size = Ceiling(file.type)
             /\ file.type \in {T_image, T_media, T_archive}) => ret.pf # Null

\* a file of exactly 10 MiB was read and its text returned
C18_Witness ==
  /\ Extracted
  /\ log[1].file.type = T_unknown
  /\ log[1].file.size = 10 * 1024 * 1024
  /\ ret.pf # Null /\ log[1].reads = <<log[1].file.path>>

\* the number of characters of codes in \x00-\x08, \x0B-\x0C, \x0E-\x1F
ControlCount(codes) ==
  Cardinality({k \in 1..Len(codes) :
                 codes[k] \notin {9, 10, 13} /\ codes[k] >= 0 /\ codes[k] <= 31})

\* C19, as stated: for a readable Unknown file within the ceiling, extract
\* returns the content when 10*c < n and null when 10*c >= n.
C19_TenPercent ==
  (Extracted /\ log[1].file.type = T_unknown /\ ~(log[1].file.size > Ceiling(T_unknown))
     /\ IsFile(fs, log[1].file.path)) =>
    LET content == fs.files[log[1].file.path]
        c == ControlCount(content.raw)
        n == Len(content.raw)
    IN IF 10 * c < n THEN ret.pf = [text |-> content] ELSE ret.pf = Null

\* C19, amended: the same, a content without any control character (the
\* empty content among them) being returned whatever its length.
C19_TenPercentOrNone ==
  (Extracted /\ log[1].file.type = T_unknown /\ ~(log[1].file.size > Ceiling(T_unknown))
     /\ IsFile(fs, log[1].file.path)) =>
    LET content == fs.files[log[1].file.path]
        c == ControlCount(content.raw)
        n == Len(content.raw)
    IN IF c = 0 \/ 10 * c < n THEN ret.pf = [text |-> content] ELSE ret.pf = Null

\* a content of 20 characters, 2 of them control characters and 1 a tab, was
\* refused
C19_Witness ==
  /\ Extracted /\ log[1].file.type = T_unknown /\ log[1].file.size = 1024
  /\ IsFile(fs, log[1].file.path)
  /\ fs.files[log[1].file.path] = Content(2, 1, 17)
  /\ ret.pf = Null

ScannerExtensions(t) ==
  CASE t = T_document ->
       {<<"p", "d", "f">>, <<"d", "o", "c", "x">>, <<"d", "o", "c">>,
        <<"t", "x", "t">>, <<"r", "t", "f">>, <<"o", "d", "t">>}
    [] t = T_image ->
       {<<"p", "n", "g">>, <<"j", "p", "g">>, <<"j", "p", "e", "g">>,
        <<"g", "i", "f">>, <<"b", "m", "p">>, <<"s", "v", "g">>, <<"w", "e", "b", "p">>}
    [] t = T_code ->
       {<<"j", "s">>, <<"t", "s">>, <<"p", "y">>, <<"j", "a", "v", "a">>,
        <<"c", "p", "p">>, <<"c">>, <<"g", "o">>, <<"r", "s">>, <<"r", "b">>,
        <<"p", "h", "p">>, <<"s", "w", "i", "f", "t">>, <<"k", "t">>}
    [] t = T_data ->
       {<<"j", "s", "o", "n">>, <<"c", "s", "v">>, <<"x", "m", "l">>,
        <<"y", "a", "m", "l">>, <<"y", "m", "l">>, <<"s", "q", "l">>}
    [] t = T_archive ->
       {<<"z", "i", "p">>, <<"t", "a", "r">>, <<"g", "z">>, <<"r", "a", "r">>,
        <<"7", "z">>, <<"b", "z", "2">>}
    [] t = T_media ->
       {<<"m", "p", "3">>, <<"m", "p", "4">>, <<"a", "v", "i">>, <<"m", "o", "v">>,
        <<"w", "a", "v">>, <<"f", "l", "a", "c">>}
    [] OTHER -> {}

\* FileScanner.getFileType: extensionMap.get(extension) || FileType.Unknown
getFileType(extension) ==
  LET hit == {t \in {T_document, T_image, T_code, T_data, T_archive, T_media} :
                extension \in ScannerExtensions(t)}
  IN IF hit = {} THEN T_unknown ELSE CHOOSE t \in hit : TRUE

\* the type FileScanner.getFileInfo gives a file of this base name
scannedType(base) == getFileType(toLowerCase(Slice1(ExtName(base))))

\* every extension of the scanner's table or of determineFileType, some in
\* capitals, one of neither table, and none
MemberExts ==
  {<<"7", "z">>, <<"a", "v", "i">>, <<"b", "m", "p">>, <<"b", "z", "2">>, <<"c">>,
   <<"c", "p", "p">>, <<"c", "s", "v">>, <<"d", "o", "c">>, <<"d", "o", "c", "x">>,
   <<"f", "l", "a", "c">>, <<"g", "i", "f">>, <<"g", "o">>, <<"g", "z">>,
   <<"j", "a", "v", "a">>, <<"j", "p", "e", "g">>, <<"j", "p", "g">>, <<"j", "s">>,
   <<"j", "s", "o", "n">>, <<"k", "t">>, <<"m", "d">>, <<"m", "k", "v">>,
   <<"m", "o", "v">>, <<"m", "p", "3">>, <<"m", "p", "4">>, <<"o", "d", "t">>,
   <<"p", "d", "f">>, <<"p", "h", "p">>, <<"p", "n", "g">>, <<"p", "y">>,
   <<"r", "a", "r">>, <<"r", "b">>, <<"r", "s">>, <<"r", "t", "f">>, <<"s", "q", "l">>,
   <<"s", "v", "g">>, <<"s", "w", "i", "f", "t">>, <<"t", "a", "r">>, <<"t", "s">>,
   <<"t", "x", "t">>, <<"w", "a", "v">>, <<"w", "e", "b", "p">>, <<"x", "m", "l">>,
   <<"y", "a", "m", "l">>, <<"y", "m", "l">>, <<"z", "i", "p">>, <<"P", "D", "F">>,
   <<"M", "d">>, <<"x", "y", "z">>, <<>>}

\* base names of archive members: one dot, or two
MemberNames ==
  {<<"m">> \o (IF e = <<>> THEN <<>> ELSE <<".">> \o e) : e \in MemberExts}
  \cup {<<"m", ".", "x", ".">> \o e : e \in MemberExts \ {<<>>}}

\* processFiles([p.zip]) after extractArchive has written the one member of
\* p.zip into the extraction directory (line 192)
InitTypes ==
  /\ files = <<F_zip>>
  /\ options = [dryRun |-> TRUE, copy |-> FALSE, onProgress |-> FALSE]
  /\ env = [unzipper |-> "loads", pdfParse |-> TRUE, mammoth |-> TRUE]
  /\ config = TestConfig
  /\ \E n \in MemberNames :
       /\ fs = [dirs  |-> InitFs.dirs \cup {mkdtempPath(1)},
                files |-> (F_zip.path :> [zip |-> <<ZipEntry(n, Raw("c6"))>>]) @@
                          (Append(mkdtempPath(1), n) :> Raw("c6"))]
       /\ stack = << [file |-> F_zip, tempDir |-> mkdtempPath(1),
                      extractedFiles |-> <<Append(mkdtempPath(1), n)>>, idx |-> 0,
                      childResults |-> <<>>, memberLog |-> <<>>, step |-> "members",
                      pending |-> NoRet] >>
  /\ results = newResults(files)
  /\ i = 0
  /\ pc = "file"
  /\ call = NoCall
  /\ ret = NoRet
  /\ progressCalls = <<>>
  /\ log = <<[ev |-> "begin", i |-> 1]>>
  /\ faults = 0
  /\ temps = <<mkdtempPath(1)>>
  /\ rmFailed = {}

NextTypes == MemberCall

SpecTypes == InitTypes /\ [][NextTypes]_vars

\* C21: the FileInfo built for an archive member has the type the scanner
\* gives a file of the same name.
C21_SameClassification ==
  (call # NoCall /\ stack # <<>>) => call.type = scannedType(call.name)

(***************************************************************************)
(* Polish: construction, loadConfig, organize                              *)
(***************************************************************************)
S_work == <<"w", "o", "r", "k">>

S_gone == <<"g", "o", "n", "e">>

\* the configuration of the profile 'work', in two versions
WorkConfig(v) == [TestConfig EXCEPT !.vaultPath = <<<<"w", DigitChars[v + 1]>>>>]

\* the configuration handed to the constructor
CustomConfig == [vaultPath |-> <<<<"c", "v">>>>]

\* the profile stores: none yet, or an initialized one, with or without a
\* profile 'work', either profile active
PolishStores ==
  LET none == [dirs |-> {<<polishDir[1]>>}, files |-> <<>>]
      dflt == initialize(none, 0, Null, DefaultConfigValue, S_default)
      both == {createProfile(dflt, 0, S_work, WorkConfig(v), "Work").fs : v \in 1..2}
  IN {none, dflt} \cup both \cup {setActiveProfile(b, 0, S_work).fs : b \in both}

\* before new Polish(...)
InitPolish ==
  /\ fs \in PolishStores
  /\ files = <<>>
  /\ options = [dryRun |-> TRUE, copy |-> FALSE, onProgress |-> FALSE]
  /\ env = [unzipper |-> "untried", pdfParse |-> TRUE, mammoth |-> TRUE]
  /\ config = Null
  /\ results = newResults(files)
  /\ i = 1
  /\ pc = "new"
  /\ call = NoCall
  /\ ret = NoRet
  /\ stack = <<>>
  /\ progressCalls = <<>>
  /\ log = <<>>
  /\ faults = 0
  /\ temps = <<>>
  /\ rmFailed = {}

\* new Polish(config?, profileName?) (lines 21-32); call keeps the arguments
PolishNew ==
  /\ pc = "new"
  /\ \E custom \in BOOLEAN, profileName \in {<<>>, S_default, S_work, S_gone} :
       /\ config' = IF custom
                    THEN [id |-> i + 1,
                          value |-> [f \in DOMAIN DefaultConfigValue |->
                                       IF f \in DOMAIN CustomConfig THEN CustomConfig[f]
                                       ELSE DefaultConfigValue[f]]]
                    ELSE getDefaultConfig(i)
       /\ call' = [custom |-> custom, profileName |-> profileName]
  /\ i' = i + 1
  /\ pc' = "ready"
  /\ log' = <<[ev |-> "new", store |-> fs]>>
  /\ UNCHANGED <<files, options, env, fs, results, ret, stack, progressCalls, faults,
                 temps, rmFailed>>

\* polish.loadConfig() called by the user of the class
PolishLoadConfig ==
  /\ pc = "ready"
  /\ LET r == loadConfig(fs, i, config, call.profileName)
     IN fs' = r.fs /\ config' = r.config
  /\ i' = i + 1
  /\ pc' = "loaded"
  /\ log' = Append(log, [ev |-> "loadConfig", store |-> fs])
  /\ UNCHANGED <<files, options, env, results, call, ret, stack, progressCalls, faults,
                 temps, rmFailed>>

\* polish.organize(): lines 58-61 settle the config, with which the scanner
\* and the FileProcessor are then built (lines 63-82); ret is that config
PolishOrganize ==
  /\ pc \in {"ready", "loaded"}
  /\ LET r == organizeConfig(fs, i, config, call.profileName)
     IN /\ fs' = r.fs
        /\ config' = r.config
        /\ ret' = Returned(r.config.value)
  /\ i' = i + 2
  /\ pc' = "done"
  /\ log' = Append(log, [ev |-> "organize", store |-> fs])
  /\ UNCHANGED <<files, options, env, results, call, stack, progressCalls, faults,
                 temps, rmFailed>>

NextPolish == PolishNew \/ PolishLoadConfig \/ PolishOrganize

SpecPolish == InitPolish /\ [][NextPolish]_vars

\* C22: organize() of a Polish made without a config runs with the
\* configuration of the named profile, or of the active profile when no name
\* was given, provided that profile is in the store - whether or not
\* loadConfig() was called before.
C22_OrganizeUsesProfile ==
  (pc = "done" /\ ~call.custom) =>
    LET store == log[Len(log)].store
    IN /\ (call.profileName # <<>> /\ HasProfile(store, call.profileName)) =>
            ret.pf = getProfile(store, call.profileName).config
       /\ (call.profileName = <<>> /\ HasActive(store)) =>
            ret.pf = getProfile(store, getActiveProfile(store)).config

(***************************************************************************)
(* ProfileManager: the calls of one manager on one profile store           *)
(***************************************************************************)
\* the number of calls after initialize()
MaxOps == 3

S_w2 == <<"w", "2">>

\* './default', which path.join resolves to the file of 'default'
S_dotDefault == <<".", "/">> \o S_default

\* a name with a blank
S_blank == <<"a", " ", "b">>

\* a name of 51 characters
S_long == [k \in 1..51 |-> "a"]

\* two configurations that are not the default one
ConfigA == [TestConfig EXCEPT !.vaultPath = <<<<"v", "A">>>>]

ConfigB == [TestConfig EXCEPT !.vaultPath = <<<<"v", "B">>>>]

\* an entry of an import file
ImportEntry(name) ==
  [name |-> name, description |-> "Imported", config |-> ConfigB,
   createdAt |-> 0, lastUsed |-> 0]

\* the arrays of the import files
ImportLists ==
  {<<ImportEntry(S_default)>>, <<ImportEntry(S_work), ImportEntry(S_default)>>,
   <<ImportEntry(S_default), ImportEntry(S_w2)>>}

\* no store yet: the home directory only
InitProfiles ==
  /\ fs = [dirs |-> {<<polishDir[1]>>}, files |-> <<>>]
  /\ files = <<>>
  /\ options = [dryRun |-> TRUE, copy |-> FALSE, onProgress |-> FALSE]
  /\ env = [unzipper |-> "untried", pdfParse |-> TRUE, mammoth |-> TRUE]
  /\ config = DefaultConfigValue
  /\ results = newResults(files)
  /\ i = 0
  /\ pc = "new"
  /\ call = NoCall
  /\ ret = NoRet
  /\ stack = <<>>
  /\ progressCalls = <<>>
  /\ log = <<>>
  /\ faults = 0
  /\ temps = <<>>
  /\ rmFailed = {}

\* a call of the manager that ends as r: the store it leaves, whether it
\* resolved, and in log the call with the store it found
Called(op, args, r) ==
  /\ fs' = r.fs
  /\ ret' = IF r.ok THEN [ok |-> TRUE, val |-> r.val] ELSE [ok |-> FALSE, err |-> r.err]
  /\ log' = <<[op |-> op, args |-> args, before |-> fs]>>
  /\ i' = i + 1
  /\ UNCHANGED <<files, options, env, config, results, call, stack, progressCalls,
                 faults, temps, rmFailed>>

\* initialize() on the empty store, with no legacy configuration
Initialize ==
  /\ pc = "new"
  /\ pc' = "ready"
  /\ Called("initialize", <<>>,
            Resolved(initialize(fs, i, Null, config, S_default), "void"))

CreateProfile ==
  /\ pc = "ready" /\ i <= MaxOps /\ pc' = pc
  /\ \E name \in {S_work, S_default, S_blank, S_long, <<>>} :
       Called("createProfile", <<name>>, createProfile(fs, i, name, ConfigA, "New"))

CloneProfile ==
  /\ pc = "ready" /\ i <= MaxOps /\ pc' = pc
  /\ \E sourceName \in {S_default, S_work}, targetName \in {S_work, S_default, S_blank} :
       Called("cloneProfile", <<sourceName, targetName>>,
              cloneProfile(fs, i, sourceName, targetName, "Copy"))

UpdateProfile ==
  /\ pc = "ready" /\ i <= MaxOps /\ pc' = pc
  /\ \E name \in {S_default, S_work} :
       Called("updateProfile", <<name>>, updateProfile(fs, i, name, [config |-> ConfigB]))

SetActiveProfile ==
  /\ pc = "ready" /\ i <= MaxOps /\ pc' = pc
  /\ \E name \in {S_default, S_work, S_w2} :
       Called("setActiveProfile", <<name>>, setActiveProfile(fs, i, name))

DeleteProfile ==
  /\ pc = "ready" /\ i <= MaxOps /\ pc' = pc
  /\ \E name \in {S_default, S_work, S_w2, S_dotDefault} :
       Called("deleteProfile", <<name>>, deleteProfile(fs, i, name))

RenameProfile ==
  /\ pc = "ready" /\ i <= MaxOps /\ pc' = pc
  /\ \E oldName \in {S_default, S_work, S_w2, S_dotDefault}, newName \in {S_w2, S_work, S_blank} :
       Called("renameProfile", <<oldName, newName>>, renameProfile(fs, i, oldName, newName))

ImportProfiles ==
  /\ pc = "ready" /\ i <= MaxOps /\ pc' = pc
  /\ \E importedProfiles \in ImportLists, overwrite \in BOOLEAN :
       Called("importProfiles", <<importedProfiles, overwrite>>,
              importProfiles(fs, i, importedProfiles, overwrite))

NextProfiles ==
  \/ Initialize
  \/ CreateProfile
  \/ CloneProfile
  \/ UpdateProfile
  \/ SetActiveProfile
  \/ DeleteProfile
  \/ RenameProfile
  \/ ImportProfiles

SpecProfiles == InitProfiles /\ [][NextProfiles]_vars

\* the last call was op
Last(op) == log # <<>> /\ log[1].op = op

\* the store the last call found
Before == log[1].before

\* the profiles and the active pointer of store a are those of store b
SameStore(a, b) ==
  /\ StoredNames(a) = StoredNames(b)
  /\ \A n \in StoredNames(a) : a.files[getProfilePath(n)] = b.files[getProfilePath(n)]
  /\ HasActive(a) = HasActive(b)
  /\ HasActive(a) => a.files[activeProfileFile] = b.files[activeProfileFile]

\* C23: importProfiles with overwrite = true resolves, its list names every
\* entry of the file, and every entry whose name was in the store is in the
\* store with the imported configuration afterwards.
C23_ForceImportOverwrites ==
  (Last("importProfiles") /\ log[1].args[2]) =>
    LET importedProfiles == log[1].args[1]
    IN /\ ret.ok
       /\ \A k \in 1..Len(importedProfiles) :
            /\ \E j \in 1..Len(ret.val) : ret.val[j] = importedProfiles[k].name
            /\ HasProfile(Before, importedProfiles[k].name) =>
                 /\ HasProfile(fs, importedProfiles[k].name)
                 /\ getProfile(fs, importedProfiles[k].name).config
                      = importedProfiles[k].config

\* C27: after initialize() and any calls, the profile 'default' is in the
\* store and the active pointer names a profile of the store.
C27_DefaultAndActiveExist ==
  pc = "ready" =>
    /\ HasProfile(fs, S_default)
    /\ HasActive(fs)
    /\ HasProfile(fs, getActiveProfile(fs))

\* C28: deleteProfile('default') and deleteProfile of a name that is not in
\* the store reject and leave the store as it was; deleteProfile(n) of a
\* stored profile other than 'default' resolves, removes n and nothing else,
\* leaves the other profiles' configurations as they were, and leaves
\* 'default' active when n was active.
C28_DeleteProfile ==
  Last("deleteProfile") =>
    LET name == log[1].args[1]
    IN IF name = S_default \/ ~HasProfile(Before, name)
       THEN ~ret.ok /\ SameStore(fs, Before)
       ELSE /\ ret.ok
            /\ StoredNames(fs) = StoredNames(Before) \ {name}
            /\ \A m \in StoredNames(fs) :
                 getProfile(fs, m).config = getProfile(Before, m).config
            /\ IF getActiveProfile(Before) = name
               THEN getActiveProfile(fs) = S_default
               ELSE getActiveProfile(fs) = getActiveProfile(Before)

\* C29: renameProfile(old, new) with old stored and not 'default' and new
\* valid and unused resolves: old is gone, new holds old's config,
\* description and createdAt, the other profiles are as they were, and the
\* active profile is new if it was old and is unchanged otherwise.  In every
\* other case the call rejects and the store is as it was.
C29_RenameProfile ==
  Last("renameProfile") =>
    LET oldName == log[1].args[1]
        newName == log[1].args[2]
    IN IF oldName # S_default /\ HasProfile(Before, oldName)
          /\ validateProfileName(Before, newName) = "ok"
       THEN /\ ret.ok
            /\ StoredNames(fs) = (StoredNames(Before) \ {oldName}) \cup {newName}
            /\ getProfile(fs, newName).config = getProfile(Before, oldName).config
            /\ getProfile(fs, newName).description = getProfile(Before, oldName).description
            /\ getProfile(fs, newName).createdAt = getProfile(Before, oldName).createdAt
            /\ \A m \in StoredNames(fs) \ {newName} :
                 getProfile(fs, m) = getProfile(Before, m)
            /\ IF getActiveProfile(Before) = oldName
               THEN getActiveProfile(fs) = newName
               ELSE getActiveProfile(fs) = getActiveProfile(Before)
       ELSE ~ret.ok /\ SameStore(fs, Before)

\* the name is not one validateProfileName lets through: empty, with a
\* character that is no letter, digit, '_' or '-', or of more than 50
\* characters
BadName(name) ==
  \/ name = <<>>
  \/ \E k \in 1..Len(name) :
       name[k] \notin NameCharSet
  \/ Len(name) >= 51

\* C30: createProfile and cloneProfile reject, and leave the store as it
\* was, when the new name is stored already, is empty, has a character
\* outside [A-Za-z0-9_-] or is longer than 50 characters; when they resolve,
\* the store has the new profile and the profiles it had before, each as it
\* was, the clone has the configuration of its source, and the active
\* pointer is as it was.
C30_NeverOverwrite ==
  (Last("createProfile") \/ Last("cloneProfile")) =>
    LET name == log[1].args[Len(log[1].args)]
    IN /\ (HasProfile(Before, name) \/ BadName(name)) =>
            ~ret.ok /\ SameStore(fs, Before)
       /\ ~ret.ok => SameStore(fs, Before)
       /\ ret.ok =>
            /\ name \notin StoredNames(Before)
            /\ StoredNames(fs) = StoredNames(Before) \cup {name}
            /\ \A m \in StoredNames(Before) : getProfile(fs, m) = getProfile(Before, m)
            /\ fs.files[activeProfileFile] = Before.files[activeProfileFile]
            /\ Last("createProfile") => getProfile(fs, name).config = ConfigA
            /\ Last("cloneProfile") =>
                 getProfile(fs, name).config = getProfile(Before, log[1].args[1]).config

\* cloneProfile('work', 'default') has been refused while both profiles are
\* stored with different configurations
C30_Witness ==
  /\ Last("cloneProfile")
  /\ log[1].args = <<S_work, S_default>>
  /\ ~ret.ok
  /\ HasProfile(Before, S_work)
  /\ getProfile(Before, S_work).config # getProfile(Before, S_default).config
  /\ getProfile(fs, S_default).config = DefaultConfigValue

(***************************************************************************)
(* processFiles on one archive that may yield no entries                   *)
(***************************************************************************)
S_tar == <<"t", "a", "r">>

F_tar == FileInfoOf(S_src1, <<"s", "i", "t", "e", "-", "b", "a", "c", "k", "u", "p", "-", "c", "o", "p", "y", ".", "t", "a", "r">>, S_tar, T_archive)

\* the archives: a .zip without entries, one with a directory entry only, one
\* with a file entry, and a .tar
FallbackArchives ==
  {[file |-> F_zip, data |-> [zip |-> <<>>]],
   [file |-> F_zip,
    data |-> [zip |-> <<[path |-> <<"d", "/">>, type |-> "Directory", data |-> Raw("")]>>]],
   [file |-> F_zip, data |-> [zip |-> <<ZipEntry(<<"m", ".", "t", "x", "t">>, Raw("c4"))>>]],
   [file |-> F_tar, data |-> Raw("c9")]}

\* processFiles([archive], options) before its first iteration
InitFallback ==
  /\ \E a \in FallbackArchives :
       /\ files = <<a.file>>
       /\ fs = [dirs |-> {<<S_tmp>>, <<S_src1>>}, files |-> (a.file.path :> a.data)]
  /\ options \in [dryRun : BOOLEAN, copy : BOOLEAN, onProgress : {FALSE}]
  /\ env = [unzipper |-> "untried", pdfParse |-> TRUE, mammoth |-> TRUE]
  /\ config \in {[TestConfig EXCEPT !.maxTags = n] : n \in {2, MaxTagLimit}}
  /\ results = newResults(files)
  /\ i = 0
  /\ pc = "loop"
  /\ call = NoCall
  /\ ret = NoRet
  /\ stack = <<>>
  /\ progressCalls = <<>>
  /\ log = <<>>
  /\ faults = 0
  /\ temps = <<>>
  /\ rmFailed = {}

SpecFallback == InitFallback /\ [][Next]_vars

\* C24: an archive whose extraction yielded no entry is processed as an
\* ordinary file: when its processing returns, the document is named
\* <stem>.md, the tags are the min(maxTags, number of candidates) best
\* candidates of suggestTags, the frontmatter has neither archiveType nor
\* extractedFiles, and unless dry run the document is written and the
\* original moved or copied; the archive has one entry in the results.
C24_FallbackAsOrdinary ==
  /\ (stack # <<>> /\ Top.step = "cleanup" /\ Top.extractedFiles = <<>>) =>
       /\ Top.pending # NoRet
       /\ Top.pending.ok =>
            LET pf == Top.pending.pf
                c  == suggestTags(Top.file)
                n  == IF config.maxTags < Len(c) THEN config.maxTags ELSE Len(c)
            IN /\ pf.original = Top.file
               /\ Basename(pf.markdownPath) = ParseName(Top.file.name) \o <<".", "m", "d">>
               /\ Len(pf.tags) = n
               /\ \A j \in 1..Len(c) : Rank(c, j) <= n => pf.tags[Rank(c, j)] = c[j].tag
               /\ pf.frontmatter.tags = pf.tags
               /\ DOMAIN pf.frontmatter \cap {"archiveType", "extractedFiles"} = {}
               /\ ~options.dryRun =>
                    /\ IsFile(fs, pf.markdownPath)
                    /\ fs.files[pf.markdownPath] = [md |-> pf.content]
                    /\ IsFile(fs, pf.originalNewPath)
                    /\ IsFile(fs, Top.file.path) <=> options.copy
               /\ options.dryRun =>
                    /\ ~IsFile(fs, pf.markdownPath)
                    /\ ~IsFile(fs, pf.originalNewPath)
                    /\ IsFile(fs, Top.file.path)
  /\ pc = "done" => \A k \in 1..Len(files) : EntriesOf(files[k]) = 1

\* the .tar archive of six tag candidates was processed as an ordinary file
\* in a real run with maxTags = 2
C24_Witness ==
  /\ stack # <<>> /\ Top.step = "cleanup" /\ Top.extractedFiles = <<>>
  /\ Top.file = F_tar /\ Top.pending # NoRet /\ Top.pending.ok
  /\ ~options.dryRun /\ config.maxTags = 2
  /\ Len(suggestTags(F_tar)) = 6
  /\ IsFile(fs, Top.pending.pf.markdownPath)

(***************************************************************************)
(* The file operations of one file: order, no rollback                     *)
(***************************************************************************)
\* what a failed placement of file f with error e has left of file system a
\* in file system b: nothing but directories when a mkdir or the write of the
\* markdown failed, and the markdown document in its directory, next to the
\* directory for the original, when the move or copy failed
LeftBehind(f, e, a, b) ==
  /\ a.dirs \subseteq b.dirs
  /\ e.syscall = "mkdir" => b.files = a.files
  /\ e.syscall = "open" =>
       /\ b.files = a.files
       /\ e.path # f.path =>
            /\ Dirname(e.path) \in b.dirs
            /\ \E d \in b.dirs : IsPrefix(config.originalsPath, d) /\ d # config.originalsPath
  /\ e.syscall \in {"rename", "copyfile"} =>
       /\ e.path = f.path
       /\ \E d \in b.dirs : IsPrefix(config.originalsPath, d) /\ d # config.originalsPath
       /\ \E p \in DOMAIN b.files :
            /\ IsPrefix(config.vaultPath, p)
            /\ Basename(p) \in {ParseName(f.name) \o <<".", "m", "d">>,
                                ParseName(f.name)
                                  \o <<"_", "a", "r", "c", "h", "i", "v", "e", ".", "m", "d">>}
            /\ "md" \in DOMAIN b.files[p]
            /\ Dirname(p) \in b.dirs
            /\ DOMAIN b.files = DOMAIN a.files \cup {p}
            /\ \A q \in DOMAIN a.files \ {p} : b.files[q] = a.files[q]

\* what a successful placement leaves
Placed(pf, b) ==
  /\ IsFile(b, pf.markdownPath)
  /\ b.files[pf.markdownPath] = [md |-> pf.content]
  /\ IsFile(b, pf.originalNewPath)
  /\ Dirname(pf.markdownPath) \in b.dirs
  /\ Dirname(pf.originalNewPath) \in b.dirs

\* the step is the processFile of a file that is not an archive
PlainStep == call # NoCall /\ call.type # T_archive /\ call' = NoCall

\* the step is the placement of an archive's own document
ArchiveStep ==
  /\ stack # <<>> /\ Top.step \in {"normal", "members"}
  /\ Len(stack') = Len(stack) /\ stack'[Len(stack)].step = "cleanup"

\* C25: in a real run a failed mkdir or markdown write leaves no file
\* changed, a failed move or copy leaves the markdown document and both
\* directories, and nothing else is changed; when an archive's own move
\* fails its members' documents and originals are where they were put, and
\* the finally block touches nothing outside the extraction directory; the
\* failure is recorded in failed for the input file.
C25_NoRollback ==
  [][/\ (PlainStep /\ ~options.dryRun) =>
          IF ret'.ok THEN Placed(ret'.pf, fs') ELSE LeftBehind(call, ret'.err, fs, fs')
     /\ (ArchiveStep /\ ~options.dryRun) =>
          LET o == stack'[Len(stack)].pending
          IN /\ IF o.ok THEN Placed(o.pf, fs') ELSE LeftBehind(Top.file, o.err, fs, fs')
             /\ \A k \in 1..Len(Top.childResults) :
                  /\ IsFile(fs', Top.childResults[k].markdownPath)
                  /\ IsFile(fs', Top.childResults[k].originalNewPath)
     /\ (stack # <<>> /\ Top.step = "cleanup" /\ Len(stack') < Len(stack)) =>
          \A q \in DOMAIN fs.files :
            ~IsPrefix(Top.tempDir, q) => IsFile(fs', q) /\ fs'.files[q] = fs.files[q]
     /\ (pc = "file" /\ pc' = "loop" /\ ~ret.ok) =>
          /\ results'.failed = Append(results.failed, [file |-> files[i + 1], error |-> ret.err])
          /\ fs' = fs
    ]_vars

\* the move of the archive p.zip failed after its member m.txt was placed:
\* both documents are in the vault and p.zip is in failed
C25_Witness ==
  /\ pc = "done" /\ ~options.dryRun /\ ~options.copy
  /\ Len(results.failed) = 1
  /\ results.failed[1].file = F_zip
  /\ results.failed[1].error = [syscall |-> "rename", path |-> F_zip.path]
  /\ \E p \in DOMAIN fs.files : Basename(p) = <<"p", "_", "a", "r", "c", "h", "i", "v", "e", ".", "m", "d">>
  /\ \E p \in DOMAIN fs.files : Basename(p) = <<"m", ".", "m", "d">>
  /\ IsFile(fs, F_zip.path)

\* C26: when a real run has returned, every entry of processed has its
\* document at its markdownPath with the content of the entry, and no two
\* entries have the same markdownPath.
C26_MarkdownKept ==
  (pc = "done" /\ ~options.dryRun) =>
    /\ \A j \in 1..Len(results.processed) :
         /\ IsFile(fs, results.processed[j].markdownPath)
         /\ fs.files[results.processed[j].markdownPath]
              = [md |-> results.processed[j].content]
    /\ \A j, k \in 1..Len(results.processed) :
         j # k => results.processed[j].markdownPath # results.processed[k].markdownPath

====
